---------------------------- MODULE AccessGrants ----------------------------
(***************************************************************************)
(* Powers that are granted for a while: capability tokens, support         *)
(* sessions and overrides of feature flags.  Three machines that share no  *)
(* state.                                                                  *)
(***************************************************************************)
EXTENDS Integers, Sequences, FiniteSets

(***************************************************************************)
(* security/capability-tokens.ts: single-use, signed, scoped tokens.        *)
(* Issuing keeps no state; the ledger holds the ids being used or used, up  *)
(* to a capacity, and two maps hold revocations until they no longer matter.*)
(* A token is presented by concurrent calls of use, whose action is awaited.*)
(* Claims carry their target; forged and malformed tokens are the calls     *)
(* with no token.  succeeded counts completed actions; banned are the tokens *)
(* that were issued when they, or their subject, were revoked.              *)
(***************************************************************************)

CONSTANTS
    Tokens, Subjects, Targets, Callers,
    TokenTtls,     \* lifetimes of at most maxTtlMs
    MaxTtl,        \* maxTtlMs
    Skew,          \* CLOCK_SKEW_MS
    LedgerCapacity,
    MaxMs

VARIABLES ms, claims, ledger, revokedIds, revokedSubjects, using, succeeded, banned

tokenVars == <<ms, claims, ledger, revokedIds, revokedSubjects, using, succeeded, banned>>

NoClaims == [subject |-> "none", target |-> "none", iat |-> 0, exp |-> 0]

NoCall == "idle"

TokenInit ==
    /\ ms = 0
    /\ claims = [t \in Tokens |-> NoClaims]
    /\ ledger = [t \in {} |-> "used"]
    /\ revokedIds = {}
    /\ revokedSubjects = [s \in {} |-> 0]
    /\ using = [c \in Callers |-> NoCall]
    /\ succeeded = [t \in Tokens |-> 0]
    /\ banned = {}

MsPasses ==
    /\ ms < MaxMs /\ ms' = ms + 1
    /\ UNCHANGED <<claims, ledger, revokedIds, revokedSubjects, using, succeeded, banned>>

Issue(t, s, target, ttl) ==
    /\ claims[t] = NoClaims
    /\ claims' = [claims EXCEPT ![t] =
          [subject |-> s, target |-> target, iat |-> ms, exp |-> ms + ttl]]
    /\ UNCHANGED <<ms, ledger, revokedIds, revokedSubjects, using, succeeded, banned>>

Without(f, keys) == [k \in DOMAIN f \ keys |-> f[k]]

\* pruneRevocations: an id until its token expires, a subject until every
\* token the cutoff covers has.
PrunedIds == {t \in revokedIds : claims[t].exp > ms}

PrunedSubjects ==
    Without(revokedSubjects, {s \in DOMAIN revokedSubjects : revokedSubjects[s] + MaxTtl + Skew <= ms})

\* verify, in its order; the revocation maps are pruned only when it gets there.
Verified(t, target) ==
    /\ ms < claims[t].exp
    /\ claims[t].target = target

Revoked(t) ==
    \/ t \in PrunedIds
    \/ claims[t].subject \in DOMAIN PrunedSubjects
          /\ claims[t].iat <= PrunedSubjects[claims[t].subject]

\* reserve: a full ledger is swept of expired ids first.
SweptLedger ==
    IF Cardinality(DOMAIN ledger) < LedgerCapacity THEN ledger
    ELSE Without(ledger, {t \in DOMAIN ledger : claims[t].exp <= ms})

HasRoom == Cardinality(DOMAIN SweptLedger) < LedgerCapacity

With(f, k, v) == [x \in DOMAIN f \cup {k} |-> IF x = k THEN v ELSE f[x]]

Use(c, t, target) ==
    /\ using[c] = NoCall
    /\ Verified(t, target)
    /\ revokedIds' = PrunedIds
    /\ revokedSubjects' = PrunedSubjects
    /\ \/ /\ Revoked(t) \/ t \in DOMAIN ledger
          /\ UNCHANGED <<ledger, using>>
       \/ /\ ~Revoked(t) /\ t \notin DOMAIN ledger /\ ~HasRoom
          /\ ledger' = SweptLedger
          /\ UNCHANGED using
       \/ /\ ~Revoked(t) /\ t \notin DOMAIN ledger /\ HasRoom
          /\ ledger' = With(SweptLedger, t, "reserved")
          /\ using' = [using EXCEPT ![c] = t]
    /\ UNCHANGED <<ms, claims, succeeded, banned>>

\* The action resolves or throws; a failed one gives the token back.
ActionEnds(c) ==
    /\ using[c] # NoCall
    /\ \/ /\ ledger' = With(ledger, using[c], "used")
          /\ succeeded' = [succeeded EXCEPT ![using[c]] = @ + 1]
       \/ ledger' = Without(ledger, {using[c]}) /\ UNCHANGED succeeded
    /\ using' = [using EXCEPT ![c] = NoCall]
    /\ UNCHANGED <<ms, claims, revokedIds, revokedSubjects, banned>>

RevokeCapability(t) ==
    /\ claims[t].exp > ms
    /\ revokedIds' = PrunedIds \cup {t}
    /\ revokedSubjects' = PrunedSubjects
    /\ ledger' = Without(ledger, {t})
    /\ banned' = banned \cup {t}
    /\ UNCHANGED <<ms, claims, using, succeeded>>

RevokeSubject(s) ==
    /\ s \in DOMAIN PrunedSubjects => PrunedSubjects[s] < ms
    /\ revokedIds' = PrunedIds
    /\ revokedSubjects' = With(PrunedSubjects, s, ms)
    /\ banned' = banned \cup {t \in Tokens : claims[t].subject = s}
    /\ UNCHANGED <<ms, claims, ledger, using, succeeded>>

TokenNext ==
    \/ MsPasses
    \/ \E t \in Tokens : RevokeCapability(t)
    \/ \E t \in Tokens, s \in Subjects, target \in Targets, ttl \in TokenTtls : Issue(t, s, target, ttl)
    \/ \E c \in Callers, t \in Tokens, target \in Targets : Use(c, t, target)
    \/ \E c \in Callers : ActionEnds(c)
    \/ \E s \in Subjects : RevokeSubject(s)

-----------------------------------------------------------------------------
TokenTypeOK ==
    /\ DOMAIN ledger \subseteq Tokens
    /\ \A t \in DOMAIN ledger : ledger[t] \in {"reserved", "used"}
    /\ revokedIds \subseteq Tokens /\ DOMAIN revokedSubjects \subseteq Subjects
    /\ using \in [Callers -> Tokens \cup {NoCall}]

\* "A capability that already succeeded can never run again", and two calls
\* never hold the same one, whatever is revoked, swept or expires meanwhile.
UsedOnce ==
    \A t \in Tokens :
       /\ succeeded[t] + Cardinality({c \in Callers : using[c] = t}) <= 1

\* The ledger's capacity bounds the tokens in it that could still be presented:
\* what exceeds it expired, or was revoked, while its action ran.
LedgerBounded ==
    Cardinality({t \in DOMAIN ledger \ banned : claims[t].exp > ms}) <= LedgerCapacity

\* Once a token or its subject is revoked no new use of the token begins, even
\* after the revocation itself has been pruned.
RevokedForGood ==
    \A t \in banned, c \in Callers : using'[c] = t => using[c] = t

\* What a deployment configures.
TokenConstants ==
    /\ TokenTtls \subseteq 1..MaxTtl /\ MaxTtl \in Nat /\ Skew \in Nat
    /\ NoCall \notin Tokens /\ NoClaims.subject \notin Subjects

\* The inductive invariant behind it: whenever a revocation was pruned, every token it
\* covered has expired.
StillRevoked(t) ==
    \/ t \in revokedIds
    \/ /\ claims[t].subject \in DOMAIN revokedSubjects
       /\ claims[t].iat <= revokedSubjects[claims[t].subject]

TokenInv ==
    /\ ms \in Nat /\ banned \subseteq Tokens /\ revokedIds \subseteq Tokens
    /\ claims \in [Tokens -> [subject : Subjects \cup {"none"}, target : Targets \cup {"none"},
                              iat : Nat, exp : Nat]]
    /\ \A t \in Tokens : claims[t].iat <= ms /\ claims[t].exp <= claims[t].iat + MaxTtl
    /\ revokedSubjects \in [DOMAIN revokedSubjects -> 0..ms]
    /\ DOMAIN revokedSubjects \subseteq Subjects
    /\ using \in [Callers -> Tokens \cup {NoCall}]
    /\ \A t \in banned : claims[t] # NoClaims /\ (claims[t].exp > ms => StillRevoked(t))

-----------------------------------------------------------------------------
(***************************************************************************)
(* audit/impersonation.ts: support sessions in which a maintainer acts for  *)
(* someone else.  sessions is the Map in insertion order; expiry is noticed *)
(* by the call that looks.  Permissions are told apart only by "elevated"   *)
(* (authorize reads no other).  trail is the audit of the sessions: what    *)
(* was started, allowed and closed.                                         *)
(***************************************************************************)

CONSTANTS
    Staff,          \* maintainers
    Durations,      \* session lengths of at most MAX_SESSION_DURATION_MS
    MaxSessions,    \* maxSessions
    MaxStarts, MaxTrail, MaxMoment

VARIABLES moment, sessions, trail

sessionVars == <<moment, sessions, trail>>

Kinds == {"ordinary", "irreversible", "never"}

SessionInit ==
    /\ moment = 0
    /\ sessions = <<>>
    /\ trail = <<>>

MomentPasses ==
    /\ moment < MaxMoment /\ moment' = moment + 1
    /\ UNCHANGED <<sessions, trail>>

Note(what, s) == [what |-> what, id |-> s.id, elevated |-> s.elevated,
                  spent |-> s.exp <= moment]

Started == Cardinality({i \in 1..Len(trail) : trail[i].what = "started"})

\* The oldest session goes when there is one too many, open or not.
Evicted(ss) == IF Len(ss) > MaxSessions THEN Tail(ss) ELSE ss

StartSession(m, elevated, duration) ==
    LET s == [id |-> Started + 1, by |-> m, elevated |-> elevated, exp |-> moment + duration,
              ended |-> "no"]
    IN /\ Started < MaxStarts
       /\ sessions' = Evicted(Append(sessions, s))
       /\ trail' = Append(trail, Note("started", s))
       /\ UNCHANGED moment

Due(s) == s.ended = "no" /\ s.exp <= moment

Close(due) ==
    [i \in 1..Len(sessions) |->
        IF i \in due THEN [sessions[i] EXCEPT !.ended = "expired"] ELSE sessions[i]]

Noted(due) == [k \in 1..Cardinality(due) |->
    LET i == CHOOSE x \in due : Cardinality({y \in due : y < x}) = k - 1 IN Note("closed", sessions[i])]

\* getActiveSession: the first open session of the maintainer; the ones due
\* before it are closed on the way.
Own(m) == {i \in 1..Len(sessions) : sessions[i].by = m}

Live(m) == {i \in Own(m) : sessions[i].ended = "no" /\ ~Due(sessions[i])}

First(S) == CHOOSE i \in S : \A j \in S : i <= j

PassedOver(m) ==
    {i \in Own(m) : Due(sessions[i]) /\ (Live(m) # {} => i < First(Live(m)))}

\* authorize: an action that is never allowed is refused before any session
\* is looked at; an irreversible one needs an elevated session and a confirmation.
Authorize(m, kind, confirmed) ==
    LET due == IF kind = "never" THEN {} ELSE PassedOver(m)
        s == sessions[First(Live(m))]
        allowed == /\ kind # "never" /\ Live(m) # {}
                   /\ kind = "irreversible" => s.elevated /\ confirmed
        entry == IF allowed THEN <<Note(kind, s)>> ELSE <<>>
    IN /\ Len(trail) + Cardinality(due) < MaxTrail
       /\ sessions' = Close(due)
       /\ trail' = trail \o Noted(due) \o entry
       /\ UNCHANGED moment

\* endSession by its maintainer.
EndSession(i) ==
    /\ sessions[i].ended = "no"
    /\ sessions' = [sessions EXCEPT ![i].ended = "manual"]
    /\ trail' = Append(trail, Note("closed", sessions[i]))
    /\ UNCHANGED moment

\* listSessions and purgeExpired close everything that is due.
PurgeExpired ==
    LET due == {i \in 1..Len(sessions) : Due(sessions[i])} IN
    /\ due # {}
    /\ sessions' = Close(due)
    /\ trail' = trail \o Noted(due)
    /\ UNCHANGED moment

SessionNext ==
    \/ MomentPasses
    \/ \E m \in Staff, elevated \in BOOLEAN, d \in Durations : StartSession(m, elevated, d)
    \/ \E m \in Staff, kind \in Kinds, confirmed \in BOOLEAN : Authorize(m, kind, confirmed)
    \/ \E i \in 1..Len(sessions) : EndSession(i)
    \/ PurgeExpired

-----------------------------------------------------------------------------
SessionTypeOK ==
    /\ Len(sessions) <= MaxSessions
    /\ \A i \in 1..Len(sessions) : sessions[i].ended \in {"no", "manual", "expired"}

Index(what, n) == {i \in 1..Len(trail) : trail[i].what = what /\ trail[i].id = n}

\* What the audit trail shows as allowed was allowed by a session that had been
\* started, had neither run out nor been closed, and was elevated if the action
\* is irreversible.
AllowedInSession ==
    \A i \in 1..Len(trail) : trail[i].what \in Kinds =>
       /\ \E j \in Index("started", trail[i].id) : j < i
       /\ ~\E j \in Index("closed", trail[i].id) : j < i
       /\ ~trail[i].spent
       /\ trail[i].what = "irreversible" => trail[i].elevated

\* A session is closed in the trail exactly once, when it stops being open; a
\* session that was pushed out of the map while open is the only one never closed.
ClosedOnce ==
    \A n \in 1..Started :
       LET held == {i \in 1..Len(sessions) : sessions[i].id = n} IN
       /\ Cardinality(Index("closed", n)) <= 1
       /\ \A i \in held : sessions[i].ended # "no" <=> Index("closed", n) # {}

-----------------------------------------------------------------------------
(***************************************************************************)
(* config/admin-config.ts over config/feature-flags.ts: runtime overrides   *)
(* of feature flags, each change made from a version its maintainer read    *)
(* and recorded in the audit store before it is applied.                    *)
(***************************************************************************)

CONSTANTS
    Flags,
    EnvValue,     \* environmentFeatureValue: TRUE only for a variable that says so
    Admins,
    MaxVersion

VARIABLES version, overrides, evidence, seen

configVars == <<version, overrides, evidence, seen>>

\* No override: the environment's value applies.
Cleared == "null"

Override == {"true", "false", Cleared}

Effective(f, o) == IF o[f] = Cleared THEN EnvValue[f] ELSE o[f] = "true"

\* Overrides are lost on restart; the audit store here outlives the service.
ConfigInit ==
    /\ version = 0
    /\ overrides = [f \in Flags |-> Cleared]
    /\ evidence = <<>>
    /\ seen = [a \in Admins |-> [version |-> 0, overrides |-> [f \in Flags |-> Cleared]]]

\* snapshot, as a maintainer reads it.
Snapshot(a) ==
    /\ seen' = [seen EXCEPT ![a] = [version |-> version, overrides |-> overrides]]
    /\ UNCHANGED <<version, overrides, evidence>>

\* setFeatureFlag from the version the maintainer saw.  Recording the evidence
\* may fail, and then nothing changes.
SetFeatureFlag(a, f, enabled) ==
    /\ version < MaxVersion
    /\ seen[a].version = version
    /\ overrides[f] # enabled
    /\ \E recorded \in BOOLEAN :
          IF recorded
          THEN LET o == [overrides EXCEPT ![f] = enabled] IN
               /\ evidence' = Append(evidence,
                     [flag |-> f, by |-> a, basedOn |-> seen[a].overrides,
                      before |-> overrides[f], override |-> enabled,
                      enabled |-> Effective(f, o), version |-> version + 1])
               /\ overrides' = o
               /\ version' = version + 1
          ELSE UNCHANGED <<evidence, overrides, version>>
    /\ UNCHANGED seen

ConfigNext ==
    \E a \in Admins :
       \/ Snapshot(a)
       \/ \E f \in Flags, enabled \in Override : SetFeatureFlag(a, f, enabled)

-----------------------------------------------------------------------------
ConfigTypeOK == version \in 0..MaxVersion /\ overrides \in [Flags -> Override]

\* The audit trail explains the configuration: one event per version, each
\* starting from what the one before left, and replaying them gives what
\* isFeatureEnabled answers.
EvidenceExplainsConfig ==
    /\ Len(evidence) = version
    /\ \A n \in 1..Len(evidence) : evidence[n].version = n
    /\ \A f \in Flags :
          LET own == {n \in 1..Len(evidence) : evidence[n].flag = f}
              last == CHOOSE n \in own : \A m \in own : m <= n
          IN IF own = {} THEN overrides[f] = Cleared
             ELSE /\ overrides[f] = evidence[last].override
                  /\ Effective(f, overrides) = evidence[last].enabled

\* "Two maintainers cannot silently overwrite each other": who changes a flag
\* had seen every override as it was.
NoBlindOverwrite ==
    \A n \in 1..Len(evidence) : evidence[n].basedOn[evidence[n].flag] = evidence[n].before
=============================================================================
