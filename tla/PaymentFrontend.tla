-------------------------- MODULE PaymentFrontend ---------------------------
(***************************************************************************)
(* Payments as the browser sees them: the payer's page, and the stream of  *)
(* a wallet.  Two machines that share no state.                            *)
(***************************************************************************)
EXTENDS Integers, FiniteSets

(***************************************************************************)
(* The payer's page: its reducer (frontend/lib/payment-page-state.js), the  *)
(* hook that loads, polls and verifies (lib/use-payment-page.ts) and the    *)
(* wallet button (components/PaymentButton.tsx), beside the backend.        *)
(*                                                                         *)
(* A request takes its answer from the backend in one step and is delivered *)
(* in another, in any order.  past says an invoice's expiry has gone by.    *)
(* polling is whether the poll timer runs: the effect that sets it is       *)
(* evaluated when the reducer's state changes, not when time passes.        *)
(* wallets holds the payments under way; a page opened meanwhile mounts a   *)
(* new button, and the old one's callbacks still reach the reducer.         *)
(* astray is history: a wallet attempt ended on the page of another invoice.*)
(***************************************************************************)

CONSTANTS
    Invoices,
    MaxOpened,   \* bound on the pages opened (the generations)
    MaxRequests  \* bound on the requests outstanding at once

VARIABLES server, past, at, generation, payment, polling, loadError, requests, loading, wallets, astray

pageVars == <<server, past, at, generation, payment, polling, loadError, requests, loading, wallets, astray>>

Null == [id |-> "null", status |-> "null"]

PageInit ==
    /\ server = [i \in Invoices |-> "PENDING"]
    /\ past = FALSE
    /\ at = CHOOSE i \in Invoices : TRUE   \* whichever: they are alike
    /\ generation = 1
    /\ payment = [status |-> "idle", invoice |-> Null]
    /\ polling = FALSE /\ loadError = FALSE
    /\ requests = {[kind |-> "load", id |-> at, generation |-> 1, answer |-> "none"]}
    /\ loading = FALSE /\ wallets = {}
    /\ astray = FALSE

-----------------------------------------------------------------------------
EffectiveInvoiceStatus(invoice) ==
    IF invoice.status = "PENDING" /\ past THEN "EXPIRED" ELSE invoice.status

Terminal == {"paid", "expired"}

StateForStatus(invoice) ==
    IF EffectiveInvoiceStatus(invoice) = "PAID" THEN "paid"
    ELSE IF EffectiveInvoiceStatus(invoice) = "EXPIRED" THEN "expired" ELSE "null"

\* Mutant: the reducer keeps paid over an invoice that is not
BadAfterLoaded(invoice) ==
    LET forced == StateForStatus(invoice) IN
    [invoice |-> invoice,
     status |-> IF forced # "null" THEN forced
                ELSE IF payment.status \in {"paying", "verifying", "paid"} THEN payment.status ELSE "idle"]

\* paymentReducer on INVOICE_LOADED and POLL_RESULT.
AfterLoaded(invoice) ==
    LET forced == StateForStatus(invoice) IN
    [invoice |-> invoice,
     status |-> IF forced # "null" THEN forced
                ELSE IF payment.status \in {"paying", "verifying"} THEN payment.status ELSE "idle"]

\* Its local events, which a terminal state ignores.
AfterLocal(status) ==
    IF payment.status \in Terminal THEN payment ELSE [payment EXCEPT !.status = status]

ShouldPoll(p) ==
    /\ p.invoice # Null /\ p.status \notin Terminal
    /\ EffectiveInvoiceStatus(p.invoice) = "PENDING"

ShouldShowPaymentControls == EffectiveInvoiceStatus(payment.invoice) = "PENDING"

\* dispatch, and the poll effect that a new state sets off.
Dispatch(p) ==
    /\ payment' = p
    /\ polling' = IF p = payment THEN polling ELSE ShouldPoll(p)

Request(kind, id, gen) == [kind |-> kind, id |-> id, generation |-> gen, answer |-> "none"]

Ask(r) ==
    /\ Cardinality(requests) < MaxRequests
    /\ requests' = requests \cup {r}

-----------------------------------------------------------------------------
\* The id changes: older answers are void, the reducer is told there is no invoice.
Open(i) ==
    /\ i # at /\ generation < MaxOpened
    /\ at' = i /\ generation' = generation + 1
    /\ Ask(Request("load", i, generation + 1))
    /\ loadError' = FALSE
    /\ Dispatch(AfterLoaded(Null))
    /\ loading' = FALSE
    /\ UNCHANGED <<server, past, wallets, astray>>

Reload ==
    /\ loadError /\ loadError' = FALSE
    /\ Ask(Request("load", at, generation))
    /\ UNCHANGED <<server, past, at, generation, payment, polling, loading, wallets, astray>>

Poll ==
    /\ polling
    /\ Ask(Request("poll", at, generation))
    /\ UNCHANGED <<server, past, at, generation, payment, polling, loadError, loading, wallets, astray>>

\* verify: a hash or an e-mail that is refused here fails without a request.
Verify ==
    /\ ShouldShowPaymentControls /\ payment.status # "verifying"
    /\ \/ Dispatch(AfterLocal("error")) /\ UNCHANGED requests
       \/ Dispatch(AfterLocal("verifying")) /\ Ask(Request("verify", at, generation))
    /\ UNCHANGED <<server, past, at, generation, loadError, loading, wallets, astray>>

-----------------------------------------------------------------------------
\* The backend reads the invoice, or fails; a verification may settle it first.
Answer(r) ==
    /\ r \in requests /\ r.answer = "none"
    /\ \E now \in {server[r.id]} \cup {s \in {"PAID"} : r.kind = "verify" /\ server[r.id] = "PENDING"},
          ok \in BOOLEAN :
          /\ server' = [server EXCEPT ![r.id] = now]
          /\ requests' = (requests \ {r}) \cup
                {[r EXCEPT !.answer = IF ok /\ (r.kind = "verify" => now = "PAID") THEN now ELSE "error"]}
    /\ UNCHANGED <<past, at, generation, payment, polling, loadError, loading, wallets, astray>>

Fresh(r) == r.generation = generation

DeliverLoad(r) ==
    /\ r \in requests /\ r.kind = "load" /\ r.answer # "none"
    /\ requests' = requests \ {r}
    /\ IF ~Fresh(r) THEN UNCHANGED <<payment, polling, loadError>>
       ELSE /\ loadError' \in {loadError, TRUE}
            /\ IF r.answer = "error" THEN UNCHANGED <<payment, polling>>
               ELSE Dispatch(AfterLoaded([id |-> r.id, status |-> r.answer]))
    /\ UNCHANGED <<server, past, at, generation, loading, wallets, astray>>

\* A late failure is shown whatever the generation.
DeliverPoll(r) ==
    /\ r \in requests /\ r.kind = "poll" /\ r.answer # "none"
    /\ requests' = requests \ {r}
    /\ IF r.answer = "error" THEN loadError' \in {loadError, TRUE} /\ UNCHANGED <<payment, polling>>
       ELSE /\ UNCHANGED loadError
            /\ IF ~Fresh(r) \/ r.answer = "PENDING" THEN UNCHANGED <<payment, polling>>
               ELSE Dispatch(AfterLoaded([id |-> r.id, status |-> r.answer]))
    /\ UNCHANGED <<server, past, at, generation, loading, wallets, astray>>

\* A verified invoice is loaded once more.
DeliverVerify(r) ==
    /\ r \in requests /\ r.kind = "verify" /\ r.answer # "none"
    /\ IF ~Fresh(r) THEN requests' = requests \ {r} /\ UNCHANGED <<payment, polling, loadError>>
       ELSE IF r.answer = "error"
       THEN /\ requests' = requests \ {r}
            /\ Dispatch(AfterLocal("error")) /\ loadError' \in {loadError, TRUE}
       ELSE /\ requests' = (requests \ {r}) \cup {Request("load", r.id, generation)}
            /\ Dispatch([status |-> "paid", invoice |-> [id |-> r.id, status |-> "PAID"]])
            /\ loadError' = FALSE
    /\ UNCHANGED <<server, past, at, generation, loading, wallets, astray>>

-----------------------------------------------------------------------------
\* handlePayment: the request is refused, or the wallet is asked.
PayStarted ==
    /\ ShouldShowPaymentControls /\ ~loading
    /\ \/ Dispatch(AfterLocal("error")) /\ UNCHANGED <<loading, wallets>>
       \/ /\ Dispatch(AfterLocal("paying"))
          /\ loading' = TRUE /\ wallets' = wallets \cup {[id |-> payment.invoice.id, generation |-> generation]}
    /\ UNCHANGED <<server, past, at, generation, loadError, requests, astray>>

\* The attempt w ends, on its own page or on the one opened since.
PayEnded(w) ==
    /\ w \in wallets /\ wallets' = wallets \ {w}
    /\ loading' = (loading /\ ~Fresh(w))
    /\ astray' = (astray \/ ~Fresh(w))

\* No wallet, no access, or sendPayment throws.
PayFailed(w) ==
    /\ PayEnded(w) /\ Dispatch(AfterLocal("error"))
    /\ UNCHANGED <<server, past, at, generation, loadError, requests>>

\* The payment is on the ledger and its verification settled the invoice or not;
\* onSuccess then reloads the invoice that was paid, under today's generation.
PaySent(w) ==
    /\ PayEnded(w)
    /\ \E now \in {server[w.id]} \cup {s \in {"PAID"} : server[w.id] = "PENDING"} :
          server' = [server EXCEPT ![w.id] = now]
    /\ Dispatch(AfterLocal("verifying"))
    /\ Ask(Request("load", w.id, generation))
    /\ loadError' = FALSE
    /\ UNCHANGED <<past, at, generation>>

\* Elsewhere: the monitor settles, the seller cancels, the expiry goes by.
Settle(i, s) ==
    /\ server[i] = "PENDING" /\ (s = "EXPIRED" => past)
    /\ server' = [server EXCEPT ![i] = s]
    /\ UNCHANGED <<past, at, generation, payment, polling, loadError, requests, loading, wallets, astray>>

Expire ==
    /\ ~past /\ past' = TRUE
    /\ UNCHANGED <<server, at, generation, payment, polling, loadError, requests, loading, wallets, astray>>

PageNext ==
    \/ \E i \in Invoices : Open(i) \/ \E s \in {"PAID", "CANCELLED", "EXPIRED"} : Settle(i, s)
    \/ Reload \/ Poll \/ Verify \/ PayStarted \/ Expire
    \/ \E w \in wallets : PayFailed(w) \/ PaySent(w)
    \/ \E r \in requests : Answer(r) \/ DeliverLoad(r) \/ DeliverPoll(r) \/ DeliverVerify(r)

-----------------------------------------------------------------------------
PageTypeOK ==
    /\ \A i \in Invoices : server[i] \in {"PENDING", "PAID", "CANCELLED", "EXPIRED"}
    /\ payment.status \in {"idle", "paying", "verifying", "paid", "error", "expired"}
    /\ at \in Invoices /\ loading \in BOOLEAN /\ \A w \in wallets : w.id \in Invoices
    /\ Cardinality(requests) <= MaxRequests

\* The page shows the invoice of its address, however late the answers for an
\* earlier one arrive; only a wallet attempt that ends after the payer moved on
\* can put another there, since it reloads under the new generation.
ShowsItsInvoice == astray \/ payment.invoice = Null \/ payment.invoice.id = at

\* The page says paid only of an invoice the backend holds as PAID.
PaidIsTrue == payment.status = "paid" /\ ~astray => server[at] = "PAID"

\* A page that shows an unpaid, unexpired invoice watches it, unless nothing has
\* loaded yet: there is no state in which the payer waits and nothing polls.
WaitsAreWatched ==
    ShouldShowPaymentControls /\ payment.status \notin Terminal => polling

-----------------------------------------------------------------------------
(***************************************************************************)
(* PaymentMonitor (frontend/lib/payment-monitor.ts), the singleton that     *)
(* streams a wallet's payments from Horizon, and the WalletConnect          *)
(* components (components/WalletConnect.tsx) that start and stop it.        *)
(*                                                                         *)
(* One wallet; several components may be on the page.  open holds the       *)
(* streams Horizon still serves, stream the one the monitor knows (Off      *)
(* when inactive): who opened it, and whether a reconnect did.              *)
(* timers holds a component per reconnect due in five seconds.  A record    *)
(* waits for its transaction before it is announced, stream open or not.    *)
(* reading says a callback is still reading the wallet's balance.           *)
(***************************************************************************)

CONSTANTS
    Components, Payments,
    MaxStreams     \* bound on the streams opened

VARIABLES ui, connected, stream, callbacks, opened, open, timers, waiting, reading, paid, announced

streamVars == <<ui, connected, stream, callbacks, opened, open, timers, waiting, reading, paid, announced>>

Off == [id |-> 0, by |-> "none", auto |-> FALSE]

StreamInit ==
    /\ ui = [c \in Components |-> [mounted |-> FALSE, active |-> FALSE]]
    /\ connected \in BOOLEAN
    /\ stream = Off /\ callbacks = {} /\ opened = 0 /\ open = {}
    /\ timers = {} /\ waiting = {} /\ reading = FALSE /\ paid = {}
    /\ announced = [p \in Payments |-> 0]

\* stopMonitoring and startMonitoring, on the monitor m = the variables they set.
Stop(m) == IF m.stream = Off THEN m ELSE [m EXCEPT !.stream = Off, !.callbacks = {}, !.open = @ \ {m.stream.id}]

\* opens: Horizon's client may throw, which leaves the callback and no stream.
Start(m, c, auto, opens) ==
    IF m.stream # Off THEN [m EXCEPT !.callbacks = @ \cup {c}]
    ELSE IF ~opens THEN [m EXCEPT !.callbacks = {c}]
    ELSE [stream |-> [id |-> m.opened + 1, by |-> c, auto |-> auto], callbacks |-> {c}, opened |-> m.opened + 1,
          open |-> m.open \cup {m.opened + 1}]

Monitor == [stream |-> stream, callbacks |-> callbacks, opened |-> opened, open |-> open]

Becomes(m) ==
    /\ m.opened <= MaxStreams
    /\ stream' = m.stream /\ callbacks' = m.callbacks /\ opened' = m.opened /\ open' = m.open

\* The effect of a component, once it is mounted and the wallet connected: only
\* one that finds no stream starts one.
Watch(c, opens) ==
    IF stream = Off
    THEN ui' = [ui EXCEPT ![c] = [mounted |-> TRUE, active |-> TRUE]] /\ Becomes(Start(Monitor, c, FALSE, opens))
    ELSE ui' = [ui EXCEPT ![c].mounted = TRUE] /\ Becomes(Monitor)

Mount(c, opens) ==
    /\ ~ui[c].mounted
    /\ IF connected THEN Watch(c, opens) ELSE ui' = [ui EXCEPT ![c].mounted = TRUE] /\ Becomes(Monitor)
    /\ UNCHANGED <<connected, timers, waiting, reading, paid, announced>>

\* Its cleanup stops the stream, whoever started it.
Unmount(c) ==
    /\ ui[c].mounted
    /\ ui' = [ui EXCEPT ![c] = [mounted |-> FALSE, active |-> FALSE]]
    /\ Becomes(IF connected THEN Stop(Monitor) ELSE Monitor)
    /\ UNCHANGED <<connected, timers, waiting, reading, paid, announced>>

\* setWallet: a connected wallet stays so; otherwise a component's effect comes first.
SetWallet(opens) ==
    /\ connected' = TRUE
    /\ IF connected \/ \A c \in Components : ~ui[c].mounted THEN UNCHANGED ui /\ Becomes(Monitor)
       ELSE \E c \in Components : ui[c].mounted /\ Watch(c, opens)

HandleConnect(opens) ==
    /\ ~connected /\ (\E c \in Components : ui[c].mounted) /\ SetWallet(opens)
    /\ UNCHANGED <<timers, waiting, reading, paid, announced>>

\* The other components keep the flag they do not show meanwhile.
HandleDisconnect(c) ==
    /\ connected /\ ui[c].mounted
    /\ connected' = FALSE
    /\ ui' = [ui EXCEPT ![c].active = FALSE]
    /\ Becomes(Stop(Monitor))
    /\ UNCHANGED <<timers, waiting, reading, paid, announced>>

ToggleMonitoring(c, opens) ==
    /\ connected /\ ui[c].mounted
    /\ ui' = [ui EXCEPT ![c].active = ~@]
    /\ Becomes(IF ui[c].active THEN Stop(Monitor) ELSE Start(Monitor, c, FALSE, opens))
    /\ UNCHANGED <<connected, timers, waiting, reading, paid, announced>>

\* onerror, and the reconnect five seconds later.
StreamError ==
    /\ stream # Off /\ stream.by \notin timers
    /\ timers' = timers \cup {stream.by}
    /\ UNCHANGED <<ui, connected, stream, callbacks, opened, open, waiting, reading, paid, announced>>

Reconnect(c, opens) ==
    /\ c \in timers /\ timers' = timers \ {c}
    /\ Becomes(Start(Stop(Monitor), c, TRUE, opens))
    /\ UNCHANGED <<ui, connected, waiting, reading, paid, announced>>

-----------------------------------------------------------------------------
\* A payment on the ledger reaches the streams open now ("cursor('now')").
Pay(p) ==
    /\ p \notin paid /\ paid' = paid \cup {p}
    /\ waiting' = waiting \cup (open \X {p})
    /\ UNCHANGED <<ui, connected, stream, callbacks, opened, open, timers, reading, announced>>

\* onmessage once the transaction was read, or could not be; the callbacks go on
\* to read the balance.
Announce(w) ==
    /\ w \in waiting /\ waiting' = waiting \ {w}
    /\ announced' = [announced EXCEPT ![w[2]] = @ + 1]
    /\ reading' = (reading \/ callbacks # {})
    /\ UNCHANGED <<ui, connected, stream, callbacks, opened, open, timers, paid>>

LookupFails(w) ==
    /\ w \in waiting /\ waiting' = waiting \ {w}
    /\ UNCHANGED <<ui, connected, stream, callbacks, opened, open, timers, reading, paid, announced>>

\* loadBalance ends in setWallet, whatever became of the wallet meanwhile.
BalanceRead(opens) ==
    /\ reading /\ reading' = FALSE
    /\ SetWallet(opens)
    /\ UNCHANGED <<timers, waiting, paid, announced>>

StreamNext ==
    \/ \E c \in Components, opens \in BOOLEAN : Mount(c, opens) \/ ToggleMonitoring(c, opens) \/ Reconnect(c, opens)
    \/ \E c \in Components : Unmount(c) \/ HandleDisconnect(c)
    \/ \E opens \in BOOLEAN : HandleConnect(opens) \/ BalanceRead(opens)
    \/ StreamError
    \/ \E p \in Payments : Pay(p)
    \/ \E w \in waiting : Announce(w) \/ LookupFails(w)

-----------------------------------------------------------------------------
StreamTypeOK ==
    /\ opened \in 0..MaxStreams /\ open \subseteq 1..opened
    /\ callbacks \subseteq Components /\ timers \subseteq Components
    /\ connected \in BOOLEAN /\ reading \in BOOLEAN

\* No payment is announced twice, through errors, overlapping reconnects and
\* components that start and stop the monitor: Horizon never serves two streams.
AnnouncedOnce == \A p \in Payments : announced[p] <= 1

\* Pausing works: a stream is open only while some component shows monitoring as
\* active, whichever of them paused, unmounted or started it, unless a reconnect
\* that was already due opened it.
NothingListensUnasked == stream # Off /\ ~stream.auto => \E c \in Components : ui[c].active
=============================================================================
