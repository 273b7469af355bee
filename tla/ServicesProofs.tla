--------------------------- MODULE ServicesProofs ---------------------------
(***************************************************************************)
(* The themes of MCServices, for every value of its constants.  The work   *)
(* is done machine by machine in EffectProofs and MessageProofs; here each *)
(* part of MCServices is shown to be that machine (two instances of one    *)
(* module unfold to the same formula), and the parts are put together.     *)
(***************************************************************************)
EXTENDS MCServices, TLAPS

E == INSTANCE EffectProofs
M == INSTANCE MessageProofs

(* A checkpoint of MCServices is the one of EffectProofs. *)
LEMMA CheckpointPart ==
  OnceOnly!CheckpointConstants =>
    /\ OnceOnly!CheckpointInit => OnceOnly!CheckpointInv
    /\ OnceOnly!CheckpointInv /\ [OnceOnly!CheckpointNext]_checkpointVars => OnceOnly!CheckpointInv'
    /\ OnceOnly!CheckpointInv => OnceOnly!EffectAtMostOnce /\ OnceOnly!ReplayIsReal
    /\ OnceOnly!CheckpointInv /\ OnceOnly!CheckpointNext => OnceOnly!OutcomeIsFinal
<1>1. /\ (OnceOnly!CheckpointConstants <=> E!CheckpointConstants)
      /\ (OnceOnly!CheckpointInit <=> E!CheckpointInit)
      /\ (OnceOnly!CheckpointNext <=> E!CheckpointNext)
      /\ (OnceOnly!CheckpointInv <=> E!CheckpointInv)
      /\ (OnceOnly!EffectAtMostOnce <=> E!EffectAtMostOnce)
      /\ (OnceOnly!ReplayIsReal <=> E!ReplayIsReal)
      /\ (OnceOnly!OutcomeIsFinal <=> E!OutcomeIsFinal)
      /\ (OnceOnly!CheckpointInv' <=> E!CheckpointInv')
  BY DEF OnceOnly!CheckpointConstants, OnceOnly!CheckpointInit, OnceOnly!CheckpointInv,
         OnceOnly!CheckpointNext, OnceOnly!OutcomeIsFinal, OnceOnly!EffectAtMostOnce,
         OnceOnly!ReplayIsReal, OnceOnly!Nobody, OnceOnly!NoRow, OnceOnly!Idle,
         OnceOnly!CheckpointTyped, OnceOnly!RunInv, OnceOnly!Claimed, OnceOnly!NoneSlowInv,
         OnceOnly!CheckpointTick, OnceOnly!Start, OnceOnly!ClaimMemory, OnceOnly!ClaimSnapshot,
         OnceOnly!ClaimUpsert, OnceOnly!ClaimReread, OnceOnly!PutInDoubt, OnceOnly!Reconcile,
         OnceOnly!RecordFound, OnceOnly!Perform, OnceOnly!Record, OnceOnly!Crash,
         OnceOnly!RowType, OnceOnly!RunType, OnceOnly!Ended, OnceOnly!Performers, OnceOnly!Holder,
         OnceOnly!MayClaim, OnceOnly!TakeRow, OnceOnly!End, OnceOnly!Answer, OnceOnly!Settled,
         OnceOnly!Goto, OnceOnly!Overtaken, OnceOnly!Stale, OnceOnly!Cardinality,
         E!CheckpointConstants, E!CheckpointInit, E!CheckpointInv, E!CheckpointNext,
         E!OutcomeIsFinal, E!EffectAtMostOnce, E!ReplayIsReal, E!Nobody, E!NoRow, E!Idle,
         E!CheckpointTyped, E!RunInv, E!Claimed, E!NoneSlowInv, E!CheckpointTick, E!Start,
         E!ClaimMemory, E!ClaimSnapshot, E!ClaimUpsert, E!ClaimReread, E!PutInDoubt, E!Reconcile,
         E!RecordFound, E!Perform, E!Record, E!Crash, E!RowType, E!RunType, E!Ended, E!Performers,
         E!Holder, E!MayClaim, E!TakeRow, E!End, E!Answer, E!Settled, E!Goto, E!Overtaken,
         E!Stale, E!Cardinality
<1> QED BY <1>1, E!CheckpointFacts DEF checkpointVars, E!checkpointVars

(* The replay store of MCServices is the one of EffectProofs. *)
LEMMA ReplayPart ==
  OnceOnly!ReplayConstants =>
    /\ OnceOnly!ReplayInit => OnceOnly!ReplayInv
    /\ OnceOnly!ReplayInv /\ [OnceOnly!ReplayNext]_replayVars => OnceOnly!ReplayInv'
    /\ OnceOnly!ReplayInv => OnceOnly!DuplicateStopped
<1>1. /\ (OnceOnly!ReplayConstants <=> E!ReplayConstants)
      /\ (OnceOnly!ReplayInit <=> E!ReplayInit)
      /\ (OnceOnly!ReplayNext <=> E!ReplayNext)
      /\ (OnceOnly!ReplayInv <=> E!ReplayInv)
      /\ (OnceOnly!DuplicateStopped <=> E!DuplicateStopped)
      /\ (OnceOnly!ReplayInv' <=> E!ReplayInv')
  BY DEF OnceOnly!ReplayConstants, OnceOnly!ReplayInit, OnceOnly!ReplayInv, OnceOnly!ReplayNext,
         OnceOnly!DuplicateStopped, OnceOnly!Stored, OnceOnly!ReplayTick, OnceOnly!Receive,
         OnceOnly!Others, OnceOnly!FreshTimestamp, OnceOnly!Verified, OnceOnly!Cleanup,
         OnceOnly!Has, OnceOnly!Cardinality, OnceOnly!IsFiniteSet, E!ReplayConstants,
         E!ReplayInit, E!ReplayInv, E!ReplayNext, E!DuplicateStopped, E!Stored, E!ReplayTick,
         E!Receive, E!Others, E!FreshTimestamp, E!Verified, E!Cleanup, E!Has, E!Cardinality,
         E!IsFiniteSet
<1> QED BY <1>1, E!ReplayFacts DEF replayVars, E!replayVars

(* A webhook of MCServices is the one of EffectProofs. *)
LEMMA ProcessPart ==
  /\ OnceOnly!ProcessInit => OnceOnly!ProcessInv
  /\ OnceOnly!ProcessInv /\ [OnceOnly!ProcessNext]_processVars => OnceOnly!ProcessInv'
  /\ OnceOnly!ProcessInv => OnceOnly!HandledOnce /\ OnceOnly!ReplayedWasHandled
<1>1. /\ (OnceOnly!ProcessInit <=> E!ProcessInit)
      /\ (OnceOnly!ProcessNext <=> E!ProcessNext)
      /\ (OnceOnly!ProcessInv <=> E!ProcessInv)
      /\ (OnceOnly!HandledOnce <=> E!HandledOnce)
      /\ (OnceOnly!ReplayedWasHandled <=> E!ReplayedWasHandled)
      /\ (OnceOnly!ProcessInv' <=> E!ProcessInv')
  BY DEF OnceOnly!ProcessInit, OnceOnly!ProcessInv, OnceOnly!ProcessNext, OnceOnly!HandledOnce,
         OnceOnly!ReplayedWasHandled, OnceOnly!NoRecord, OnceOnly!CallPcs, OnceOnly!OneHolder,
         OnceOnly!Deliver, OnceOnly!Begin, OnceOnly!Handle, OnceOnly!Complete, OnceOnly!Release,
         OnceOnly!Expire, OnceOnly!Busy, OnceOnly!BeginResult, OnceOnly!At, OnceOnly!Cardinality,
         E!ProcessInit, E!ProcessInv, E!ProcessNext, E!HandledOnce, E!ReplayedWasHandled,
         E!NoRecord, E!CallPcs, E!OneHolder, E!Deliver, E!Begin, E!Handle, E!Complete, E!Release,
         E!Expire, E!Busy, E!BeginResult, E!At, E!Cardinality
<1> QED BY <1>1, E!ProcessFacts DEF processVars, E!processVars

(* A resource of MCServices is the one of EffectProofs. *)
LEMMA TransferPart ==
  Collaboration!TransferConstants =>
    /\ Collaboration!TransferInit => Collaboration!TransferInv
    /\ Collaboration!TransferInv /\ [Collaboration!TransferNext]_transferVars => Collaboration!TransferInv'
    /\ Collaboration!TransferInv => Collaboration!OnePendingTransfer
    /\ Collaboration!TransferInv /\ Collaboration!TransferNext => Collaboration!OwnerHandsOn
<1>1. /\ (Collaboration!TransferConstants <=> E!TransferConstants)
      /\ (Collaboration!TransferInit <=> E!TransferInit)
      /\ (Collaboration!TransferNext <=> E!TransferNext)
      /\ (Collaboration!TransferInv <=> E!TransferInv)
      /\ (Collaboration!OnePendingTransfer <=> E!OnePendingTransfer)
      /\ (Collaboration!OwnerHandsOn <=> E!OwnerHandsOn)
      /\ (Collaboration!TransferInv' <=> E!TransferInv')
  BY DEF Collaboration!TransferConstants, Collaboration!TransferInit, Collaboration!TransferInv,
         Collaboration!TransferNext, Collaboration!OwnerHandsOn, Collaboration!OnePendingTransfer,
         Collaboration!NoOne, Collaboration!NoTransfer, Collaboration!Pending,
         Collaboration!TimePasses, Collaboration!RegisterResourceOwner,
         Collaboration!InitiateTransfer, Collaboration!AcceptTransfer,
         Collaboration!CancelTransfer, Collaboration!RejectTransfer, Collaboration!LookUp,
         Collaboration!Expired, Collaboration!Close, Collaboration!Cardinality,
         Collaboration!IsFiniteSet, E!TransferConstants, E!TransferInit, E!TransferInv,
         E!TransferNext, E!OwnerHandsOn, E!OnePendingTransfer, E!NoOne, E!NoTransfer, E!Pending,
         E!TimePasses, E!RegisterResourceOwner, E!InitiateTransfer, E!AcceptTransfer,
         E!CancelTransfer, E!RejectTransfer, E!LookUp, E!Expired, E!Close, E!Cardinality,
         E!IsFiniteSet
<1> QED BY <1>1, E!TransferFacts DEF transferVars, E!transferVars

(* An invitation of MCServices is the one of EffectProofs. *)
LEMMA InvitePart ==
  Collaboration!InviteConstants =>
    /\ Collaboration!InviteInit => Collaboration!InviteInv
    /\ Collaboration!InviteInv /\ [Collaboration!InviteNext]_inviteVars => Collaboration!InviteInv'
    /\ Collaboration!InviteInv /\ Collaboration!InviteNext => Collaboration!NoLateJoin
<1>1. /\ (Collaboration!InviteConstants <=> E!InviteConstants)
      /\ (Collaboration!InviteInit <=> E!InviteInit)
      /\ (Collaboration!InviteNext <=> E!InviteNext)
      /\ (Collaboration!InviteInv <=> E!InviteInv)
      /\ (Collaboration!NoLateJoin <=> E!NoLateJoin)
      /\ (Collaboration!InviteInv' <=> E!InviteInv')
  BY DEF Collaboration!InviteConstants, Collaboration!InviteInit, Collaboration!InviteInv,
         Collaboration!InviteNext, Collaboration!NoLateJoin, Collaboration!DayPasses,
         Collaboration!Roles, Collaboration!CreateInvitation, Collaboration!AcceptInvitation,
         Collaboration!RevokeInvitation, Collaboration!ROLE_HIERARCHY, Collaboration!Recent,
         E!InviteConstants, E!InviteInit, E!InviteInv, E!InviteNext, E!NoLateJoin, E!DayPasses,
         E!Roles, E!CreateInvitation, E!AcceptInvitation, E!RevokeInvitation, E!ROLE_HIERARCHY,
         E!Recent
<1> QED BY <1>1, E!InviteFacts DEF inviteVars, E!inviteVars

(* The browser's queue of MCServices is the one of EffectProofs. *)
LEMMA OfflinePart ==
  /\ Offline!Init => Offline!OfflineInv
  /\ Offline!OfflineInv /\ [Offline!Next]_offlineVars => Offline!OfflineInv'
  /\ Offline!OfflineInv /\ Offline!Next => Offline!NotDropped
<1>1. /\ (Offline!Init <=> E!Init)
      /\ (Offline!Next <=> E!Next)
      /\ (Offline!OfflineInv <=> E!OfflineInv)
      /\ (Offline!NotDropped <=> E!NotDropped)
      /\ (Offline!OfflineInv' <=> E!OfflineInv')
  BY DEF Offline!Init, Offline!OfflineInv, Offline!Next, Offline!NotDropped, Offline!Gone,
         Offline!IdleTab, Offline!OpType, Offline!RemoteSync, Offline!Refresh,
         Offline!CurrentState, Offline!Execute, Offline!Commit, Offline!Caught,
         Offline!ClearCompleted, Offline!Enqueue, Offline!ProcessOperation,
         Offline!ResolveConflict, Offline!ArriveLate, Offline!Settle, Offline!Statuses,
         Offline!Loaded, Offline!EvaluateConflict, Offline!Leave, Offline!Apply,
         Offline!Completed, Offline!Persist, Offline!Resolved, E!Init, E!OfflineInv, E!Next,
         E!NotDropped, E!Gone, E!IdleTab, E!OpType, E!RemoteSync, E!Refresh, E!CurrentState,
         E!Execute, E!Commit, E!Caught, E!ClearCompleted, E!Enqueue, E!ProcessOperation,
         E!ResolveConflict, E!ArriveLate, E!Settle, E!Statuses, E!Loaded, E!EvaluateConflict,
         E!Leave, E!Apply, E!Completed, E!Persist, E!Resolved
<1> QED BY <1>1, E!OfflineFacts DEF offlineVars, E!vars

(* The e-mail queue of MCServices is the one of MessageProofs. *)
LEMMA QueuePart ==
  /\ Queue!Init => Queue!QueueInv
  /\ Queue!QueueInv /\ [Queue!Next]_queueVars => Queue!QueueInv'
  /\ Queue!QueueInv => Queue!OneDeliveryPerKey /\ Queue!NoDoubleSendWithoutFault
  /\ Queue!QueueInv /\ Queue!Next => Queue!TerminalIsFinal
<1>1. /\ (Queue!Init <=> M!Init)
      /\ (Queue!Next <=> M!Next)
      /\ (Queue!QueueInv <=> M!QueueInv)
      /\ (Queue!OneDeliveryPerKey <=> M!OneDeliveryPerKey)
      /\ (Queue!NoDoubleSendWithoutFault <=> M!NoDoubleSendWithoutFault)
      /\ (Queue!TerminalIsFinal <=> M!TerminalIsFinal)
      /\ (Queue!QueueInv' <=> M!QueueInv')
  BY DEF Queue!Init, Queue!QueueInv, Queue!Next, Queue!TerminalIsFinal, Queue!OneDeliveryPerKey,
         Queue!NoDoubleSendWithoutFault, Queue!NoRow, Queue!IdleRequest, Queue!IdleWorker,
         Queue!QueueTyped, Queue!WorkerInv, Queue!AboutToBeSent, Queue!Enqueue, Queue!FirstLookup,
         Queue!RateOnly, Queue!InvoiceCap, Queue!Recheck, Queue!Create, Queue!StartBatch,
         Queue!ReadDelivery, Queue!Send, Queue!WriteStatus, Queue!WriteFails, Queue!Restart,
         Queue!BackoffOver, Queue!Resume, Queue!Breaker, Queue!Terminal, Queue!Existing,
         Queue!RowType, Queue!RequestType, Queue!WorkerType, Queue!Answered, Queue!WithKeyOf,
         Queue!RateOutcome, Queue!AnswerFrom, Queue!Reserve, Queue!Pending, Queue!AfterFailure,
         Queue!Cardinality, M!Init, M!QueueInv, M!Next, M!TerminalIsFinal, M!OneDeliveryPerKey,
         M!NoDoubleSendWithoutFault, M!NoRow, M!IdleRequest, M!IdleWorker, M!QueueTyped,
         M!WorkerInv, M!AboutToBeSent, M!Enqueue, M!FirstLookup, M!RateOnly, M!InvoiceCap,
         M!Recheck, M!Create, M!StartBatch, M!ReadDelivery, M!Send, M!WriteStatus, M!WriteFails,
         M!Restart, M!BackoffOver, M!Resume, M!Breaker, M!Terminal, M!Existing, M!RowType,
         M!RequestType, M!WorkerType, M!Answered, M!WithKeyOf, M!RateOutcome, M!AnswerFrom,
         M!Reserve, M!Pending, M!AfterFailure, M!Cardinality
<1> QED BY <1>1, M!QueueFacts DEF queueVars, M!vars

(* The feed of MCServices is the one of MessageProofs. *)
LEMMA FeedPart ==
  /\ Notifications!FeedInit => Notifications!FeedInv
  /\ Notifications!FeedInv /\ [Notifications!FeedNext]_noticesVars => Notifications!FeedInv'
  /\ Notifications!FeedInv => Notifications!FeedMatchesStatus /\ Notifications!MandatoryNeverSuppressed
  /\ Notifications!FeedInv /\ Notifications!FeedNext => Notifications!NotifiedOnce
<1>1. /\ (Notifications!FeedInit <=> M!FeedInit)
      /\ (Notifications!FeedNext <=> M!FeedNext)
      /\ (Notifications!FeedInv <=> M!FeedInv)
      /\ (Notifications!FeedMatchesStatus <=> M!FeedMatchesStatus)
      /\ (Notifications!MandatoryNeverSuppressed <=> M!MandatoryNeverSuppressed)
      /\ (Notifications!NotifiedOnce <=> M!NotifiedOnce)
      /\ (Notifications!FeedInv' <=> M!FeedInv')
  BY DEF Notifications!FeedInit, Notifications!FeedInv, Notifications!FeedNext,
         Notifications!NotifiedOnce, Notifications!FeedMatchesStatus,
         Notifications!MandatoryNeverSuppressed, Notifications!Invoices, Notifications!Sellers,
         Notifications!DefaultPreferences, Notifications!Category, Notifications!Settle,
         Notifications!syncInvoiceNotifications, Notifications!notifyPaymentRejected,
         Notifications!notifyInvoiceReminder, Notifications!savePreferences,
         Notifications!markAllRead, Notifications!markRead, Notifications!StatusType,
         Notifications!MandatoryTypes, Notifications!Emit, Notifications!Categories,
         Notifications!ForRecipient, Notifications!Routing, Notifications!Urgency,
         Notifications!Range, M!FeedInit, M!FeedInv, M!FeedNext, M!NotifiedOnce,
         M!FeedMatchesStatus, M!MandatoryNeverSuppressed, M!Invoices, M!Sellers,
         M!DefaultPreferences, M!Category, M!Settle, M!syncInvoiceNotifications,
         M!notifyPaymentRejected, M!notifyInvoiceReminder, M!savePreferences, M!markAllRead,
         M!markRead, M!StatusType, M!MandatoryTypes, M!Emit, M!Categories, M!ForRecipient,
         M!Routing, M!Urgency, M!Range
<1> QED BY <1>1, M!FeedFacts DEF noticesVars, M!feedVars

(* A mail of MCServices is the one of MessageProofs. *)
LEMMA MailPart ==
  Notifications!MailConstants =>
    /\ Notifications!MailInit => Notifications!MailInv
    /\ Notifications!MailInv /\ [Notifications!MailNext]_mailerVars => Notifications!MailInv'
    /\ Notifications!MailInv => Notifications!RetriesSpent /\ Notifications!ProblemsStay
<1>1. /\ (Notifications!MailConstants <=> M!MailConstants)
      /\ (Notifications!MailInit <=> M!MailInit)
      /\ (Notifications!MailNext <=> M!MailNext)
      /\ (Notifications!MailInv <=> M!MailInv)
      /\ (Notifications!RetriesSpent <=> M!RetriesSpent)
      /\ (Notifications!ProblemsStay <=> M!ProblemsStay)
      /\ (Notifications!MailInv' <=> M!MailInv')
  BY DEF Notifications!MailConstants, Notifications!MailInit, Notifications!MailInv,
         Notifications!MailNext, Notifications!RetriesSpent, Notifications!ProblemsStay,
         Notifications!MailCategories, Notifications!LogRecord, Notifications!Deliver,
         Notifications!Accept, Notifications!Refuse, Notifications!RecordSent,
         Notifications!Webhook, Notifications!Retryable, Notifications!Recorded,
         Notifications!Signals, Notifications!Classify, Notifications!Position, M!MailConstants,
         M!MailInit, M!MailInv, M!MailNext, M!RetriesSpent, M!ProblemsStay, M!MailCategories,
         M!LogRecord, M!Deliver, M!Accept, M!Refuse, M!RecordSent, M!Webhook, M!Retryable,
         M!Recorded, M!Signals, M!Classify, M!Position
<1> QED BY <1>1, M!MailFacts DEF mailerVars, M!mailVars

(* The risk counters of MCServices is the one of MessageProofs. *)
LEMMA RiskPart ==
  Approvals!RiskConstants =>
    /\ Approvals!RiskInit => Approvals!RiskInv
    /\ Approvals!RiskInv /\ [Approvals!RiskNext]_riskVars => Approvals!RiskInv'
    /\ Approvals!RiskInv /\ Approvals!RiskNext => Approvals!FallsOnlyWithTime
<1>1. /\ (Approvals!RiskConstants <=> M!RiskConstants)
      /\ (Approvals!RiskInit <=> M!RiskInit)
      /\ (Approvals!RiskNext <=> M!RiskNext)
      /\ (Approvals!RiskInv <=> M!RiskInv)
      /\ (Approvals!FallsOnlyWithTime <=> M!FallsOnlyWithTime)
      /\ (Approvals!RiskInv' <=> M!RiskInv')
  BY DEF Approvals!RiskConstants, Approvals!RiskInit, Approvals!RiskInv, Approvals!RiskNext,
         Approvals!FallsOnlyWithTime, Approvals!Ordered, Approvals!TickPasses,
         Approvals!RecordIntent, Approvals!RecordFailure, Approvals!Sweep, Approvals!ScoreNow,
         Approvals!Record, Approvals!Prune, Approvals!Score, Approvals!Least, Approvals!BASELINE,
         Approvals!WeightFor, Approvals!VELOCITY, Approvals!REPETITION, Approvals!FAILURES,
         Approvals!Cardinality, M!RiskConstants, M!RiskInit, M!RiskInv, M!RiskNext,
         M!FallsOnlyWithTime, M!Ordered, M!TickPasses, M!RecordIntent, M!RecordFailure, M!Sweep,
         M!ScoreNow, M!Record, M!Prune, M!Score, M!Least, M!BASELINE, M!WeightFor, M!VELOCITY,
         M!REPETITION, M!FAILURES, M!Cardinality
<1> QED BY <1>1, M!RiskFacts DEF riskVars, M!riskVars

(* A capability of MCServices is the one of MessageProofs. *)
LEMMA TokenPart ==
  AccessGrants!TokenConstants =>
    /\ AccessGrants!TokenInit => AccessGrants!TokenInv
    /\ AccessGrants!TokenInv /\ [AccessGrants!TokenNext]_tokenVars => AccessGrants!TokenInv'
    /\ AccessGrants!TokenInv /\ AccessGrants!TokenNext => AccessGrants!RevokedForGood
<1>1. /\ (AccessGrants!TokenConstants <=> M!TokenConstants)
      /\ (AccessGrants!TokenInit <=> M!TokenInit)
      /\ (AccessGrants!TokenNext <=> M!TokenNext)
      /\ (AccessGrants!TokenInv <=> M!TokenInv)
      /\ (AccessGrants!RevokedForGood <=> M!RevokedForGood)
      /\ (AccessGrants!TokenInv' <=> M!TokenInv')
  BY DEF AccessGrants!TokenConstants, AccessGrants!TokenInit, AccessGrants!TokenInv,
         AccessGrants!TokenNext, AccessGrants!RevokedForGood, AccessGrants!NoCall,
         AccessGrants!NoClaims, AccessGrants!StillRevoked, AccessGrants!MsPasses,
         AccessGrants!RevokeCapability, AccessGrants!Issue, AccessGrants!Use,
         AccessGrants!ActionEnds, AccessGrants!RevokeSubject, AccessGrants!PrunedIds,
         AccessGrants!PrunedSubjects, AccessGrants!Without, AccessGrants!Verified,
         AccessGrants!Revoked, AccessGrants!HasRoom, AccessGrants!SweptLedger, AccessGrants!With,
         AccessGrants!Cardinality, M!TokenConstants, M!TokenInit, M!TokenInv, M!TokenNext,
         M!RevokedForGood, M!NoCall, M!NoClaims, M!StillRevoked, M!MsPasses, M!RevokeCapability,
         M!Issue, M!Use, M!ActionEnds, M!RevokeSubject, M!PrunedIds, M!PrunedSubjects, M!Without,
         M!Verified, M!Revoked, M!HasRoom, M!SweptLedger, M!With, M!Cardinality
<1> QED BY <1>1, M!TokenFacts DEF tokenVars, M!tokenVars

---------------------------------------------------------------------------
(* What may never happen in a step: EndsAreFinal of MCServices, of one step. *)
Finality ==
  /\ part = "checkpoint" => OnceOnly!OutcomeIsFinal
  /\ part = "queue" => Queue!TerminalIsFinal
  /\ part = "notices" => Notifications!NotifiedOnce
  /\ part = "transfer" => Collaboration!OwnerHandsOn
  /\ part = "invite" => Collaboration!NoLateJoin
  /\ part = "risk" => Approvals!FallsOnlyWithTime
  /\ part = "token" => AccessGrants!RevokedForGood
  /\ part = "offline" => Offline!NotDropped

(* The parts start as their machines do; a step of the composition is one of the part it exercises,
   or leaves every part alone. *)
LEMMA ServicesFacts ==
  /\ Init => ServicesInv
  /\ ServicesInv /\ [Next]_vars => ServicesInv'
  /\ ServicesInv => NothingTwice /\ AnswersAreTrue
  /\ ServicesInv /\ Next => Finality
<1> USE ServicesConstants, CheckpointPart, ReplayPart, ProcessPart, TransferPart, InvitePart, OfflinePart,
        QueuePart, FeedPart, MailPart, RiskPart, TokenPart
    DEF ServicesConstants, ServicesInv
<1>1. Init => ServicesInv
  BY DEF Init
<1>2. ServicesInv /\ Next => ServicesInv' /\ Finality
  BY DEF Next, Finality
<1>3. ServicesInv /\ UNCHANGED vars => ServicesInv'
  BY DEF vars
<1>4. ServicesInv => NothingTwice /\ AnswersAreTrue
  BY DEF NothingTwice, AnswersAreTrue
<1> QED BY <1>1, <1>2, <1>3, <1>4

(* The composition keeps the inductive invariants of its parts. *)
THEOREM ServicesInvariance == Spec => []ServicesInv
BY ServicesFacts, PTL DEF Spec

(* Nothing is done twice: an effect under a checkpoint (SideEffectCheckpoint), an e-mail under its
   dedupe key (EmailQueueService), a webhook in either receiver (MemoryReplayStore, processWebhook),
   unless a run outlives its claim or a fault of the storage hides that it was done. *)
THEOREM NothingHappensTwice == Spec => []NothingTwice
BY ServicesFacts, ServicesInvariance, PTL

(* What a caller is told happened: a replayed result belongs to an effect, a duplicate was handled, a
   failure spent its retries, a bounce stays visible, the feed says what the invoice is and no
   preference hides a mandatory notice. *)
THEOREM EveryAnswerIsTrue == Spec => []AnswersAreTrue
BY ServicesFacts, ServicesInvariance, PTL

(* What is over stays over: outcomes, deliveries, notices, transfers, invitations and revocations are
   never reopened, a risk score falls only with time, and no operation leaves the browser undone. *)
THEOREM EveryEndIsFinal == Spec => EndsAreFinal
<1>1. Spec => [][Finality]_vars
  BY ServicesFacts, ServicesInvariance, PTL DEF Spec
<1> QED BY <1>1 DEF Finality, EndsAreFinal
=============================================================================
