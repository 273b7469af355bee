---------------------------- MODULE ErrorCatalog ----------------------------
(***************************************************************************)
(* How an error becomes an answer: the taxonomy of domain errors and its    *)
(* classifier (errors/error-taxonomy.ts), which the error middleware of     *)
(* server.ts uses, and the catalogue of rejection reasons with its          *)
(* explainer (errors/rejection-explanation.ts).  Both are asked about the   *)
(* same error.  Wording is left out: a message is the one phrase in it that *)
(* either side looks for.                                                   *)
(***************************************************************************)
EXTENDS Integers, TLC

VARIABLES error, answer

vars == <<error, answer>>

Rows(codes, category, httpStatus, retryable) ==
    [c \in codes |-> [category |-> category, httpStatus |-> httpStatus, retryable |-> retryable]]

\* DOMAIN_ERROR_TAXONOMY, in the sections of the source.
VerifyRefusals ==
       Rows({"MISSING_TX_HASH", "INVALID_TX_HASH"}, "SETTLEMENT", 400, FALSE)
    @@ Rows({"INVALID_PAYER_NAME", "INVALID_PAYER_EMAIL", "PAYER_INFO_TOO_LONG"
             }, "VALIDATION", 400, FALSE)
    @@ Rows({"INVOICE_ALREADY_PAID", "INVOICE_EXPIRED", "INVOICE_NOT_PENDING"
             }, "LIFECYCLE", 400, FALSE)
    @@ Rows({"TRANSACTION_NOT_FOUND"}, "NOT_FOUND", 404, TRUE)

PaymentMismatches ==
       Rows({"NO_PAYMENT_OPERATION", "MEMO_MISMATCH", "DESTINATION_MISMATCH",
             "AMOUNT_MISMATCH", "ASSET_MISMATCH", "NETWORK_MISMATCH"}, "SETTLEMENT", 400, FALSE)

GeneralErrors ==
       Rows({"VALIDATION_FAILED", "INVALID_STATUS", "INVALID_CURSOR"}, "VALIDATION", 400, FALSE)
    @@ Rows({"SELLER_REQUIRED"}, "AUTHORIZATION", 400, FALSE)
    @@ Rows({"UNAUTHORIZED_SELLER", "CORS_ORIGIN_DENIED"}, "AUTHORIZATION", 403, FALSE)
    @@ Rows({"INVOICE_NOT_FOUND"}, "NOT_FOUND", 404, FALSE)
    @@ Rows({"INVOICE_CANNOT_CANCEL"}, "LIFECYCLE", 400, FALSE)
    @@ Rows({"HORIZON_UNAVAILABLE"}, "NETWORK", 503, TRUE)
    @@ Rows({"RATE_LIMITED"}, "RATE_LIMIT", 429, TRUE)
    @@ Rows({"CONFLICT"}, "LIFECYCLE", 409, TRUE)
    @@ Rows({"INTERNAL_ERROR"}, "INTERNAL", 500, TRUE)

AdminErrors ==
       Rows({"NOT_FOUND"}, "NOT_FOUND", 404, FALSE)
    @@ Rows({"INVALID_FILTER"}, "VALIDATION", 400, FALSE)
    @@ Rows({"UNAUTHORIZED"}, "AUTHORIZATION", 401, FALSE)
    @@ Rows({"JOBS_ADMIN_DISABLED", "APPROVALS_DISABLED", "CAPABILITIES_DISABLED"
             }, "AUTHORIZATION", 403, FALSE)
    @@ Rows({"SESSION_NOT_FOUND"}, "AUTHORIZATION", 404, FALSE)
    @@ Rows({"IMPERSONATION_REJECTED"}, "AUTHORIZATION", 400, FALSE)

OpsErrors ==
       Rows({"REPLAY_REFUSED", "NOTHING_TO_ROLL_BACK"}, "LIFECYCLE", 409, FALSE)
    @@ Rows({"REPLAY_IN_PROGRESS"}, "LIFECYCLE", 409, TRUE)
    @@ Rows({"INVALID_PROJECTOR_VERSION", "TARGET_INVALID"}, "VALIDATION", 400, FALSE)
    @@ Rows({"DRY_RUN_UNAVAILABLE"}, "INTERNAL", 503, FALSE)
    @@ Rows({"RECEIPT_NOT_FOUND", "REPAIR_JOB_NOT_FOUND", "REFERENCE_NOT_FOUND"
             }, "NOT_FOUND", 404, FALSE)

RetryOutcomes ==
       Rows({"USER_ACTION_REQUIRED"}, "LIFECYCLE", 422, FALSE)
    @@ Rows({"RETRY_IN_PROGRESS"}, "LIFECYCLE", 409, TRUE)
    @@ Rows({"NOT_RETRYABLE_STATE", "NOT_FAILED", "JOB_NOT_DEAD"}, "LIFECYCLE", 409, FALSE)
    @@ Rows({"JOB_NOT_FOUND"}, "NOT_FOUND", 404, FALSE)
    @@ Rows({"JOBS_UNAVAILABLE"}, "INTERNAL", 503, FALSE)

InvoicePathErrors ==
       Rows({"INVOICE_NOT_PAID"}, "LIFECYCLE", 400, FALSE)
    @@ Rows({"IDEMPOTENCY_KEY_REUSED"}, "VALIDATION", 422, FALSE)
    @@ Rows({"INVALID_IDEMPOTENCY_KEY", "RECIPIENT_EMAIL_REQUIRED", "RECIPIENT_REQUIRED"
             }, "VALIDATION", 400, FALSE)
    @@ Rows({"NOTIFICATION_NOT_FOUND"}, "NOT_FOUND", 404, FALSE)

EmailErrors ==
       Rows({"EMAIL_AUTH_FAILED"}, "AUTHORIZATION", 502, FALSE)
    @@ Rows({"EMAIL_QUOTA_EXCEEDED"}, "RATE_LIMIT", 429, TRUE)
    @@ Rows({"EMAIL_TRANSIENT_FAILURE"}, "NETWORK", 503, TRUE)
    @@ Rows({"EMAIL_INVALID_RECIPIENT", "EMAIL_REQUEST_INVALID", "EMAIL_WEBHOOK_INVALID"
             }, "VALIDATION", 400, FALSE)
    @@ Rows({"EMAIL_NOT_CONFIGURED"}, "INTERNAL", 503, FALSE)
    @@ Rows({"EMAIL_SEND_IN_PROGRESS"}, "LIFECYCLE", 409, TRUE)
    @@ Rows({"EMAIL_OUTCOME_IN_DOUBT"}, "LIFECYCLE", 409, FALSE)
    @@ Rows({"EMAIL_IDEMPOTENCY_KEY_REUSED"}, "VALIDATION", 422, FALSE)
    @@ Rows({"EMAIL_FAILED"}, "NETWORK", 502, FALSE)
    @@ Rows({"EMAIL_DELIVERY_NOT_FOUND"}, "NOT_FOUND", 404, FALSE)

ExportErrors ==
       Rows({"EXPORT_EXPIRED"}, "LIFECYCLE", 410, FALSE)
    @@ Rows({"EXPORT_FAILED"}, "INTERNAL", 500, TRUE)
    @@ Rows({"EXPORT_FORBIDDEN"}, "AUTHORIZATION", 403, FALSE)
    @@ Rows({"EXPORT_NOT_FOUND"}, "NOT_FOUND", 404, FALSE)
    @@ Rows({"EXPORT_TIMED_OUT"}, "NETWORK", 503, TRUE)
    @@ Rows({"INVALID_EXPORT_REQUEST", "REQUESTER_REQUIRED"}, "VALIDATION", 400, FALSE)

WebhookErrors ==
       Rows({"MALFORMED_WEBHOOK"}, "VALIDATION", 400, FALSE)
    @@ Rows({"STALE_TIMESTAMP"}, "VALIDATION", 408, TRUE)
    @@ Rows({"INVALID_SIGNATURE"}, "AUTHORIZATION", 401, FALSE)
    @@ Rows({"DUPLICATE_EVENT"}, "LIFECYCLE", 409, FALSE)

CapabilityErrors ==
       Rows({"CAPABILITY_REQUEST_INVALID", "UNKNOWN_CAPABILITY_ACTION"}, "VALIDATION", 400, FALSE)
    @@ Rows({"CAPABILITY_REQUIRED", "CAPABILITY_INVALID", "CAPABILITY_EXPIRED"
             }, "AUTHORIZATION", 401, FALSE)
    @@ Rows({"CAPABILITY_SCOPE_MISMATCH"}, "AUTHORIZATION", 403, FALSE)
    @@ Rows({"CAPABILITY_IN_USE"}, "LIFECYCLE", 409, TRUE)
    @@ Rows({"CAPABILITY_ALREADY_USED"}, "LIFECYCLE", 409, FALSE)
    @@ Rows({"CAPABILITY_LEDGER_FULL"}, "INTERNAL", 503, TRUE)

\* REJECTION_REASON_CATALOG, in the sections of the source.
ValidationReasons ==
       Rows({"VALIDATION_FAILED", "INVALID_PAYER_NAME", "INVALID_PAYER_EMAIL",
             "PAYER_INFO_TOO_LONG", "INVALID_STATUS", "INVALID_CURSOR", "INVALID_TX_HASH",
             "MISSING_TX_HASH", "INVALID_POLICY_PROPOSAL", "INVALID_TREND_EXPORT_REQUEST",
             "REFERENCE_MALFORMED_INPUT"}, "VALIDATION", 400, FALSE)

PolicyReasons ==
       Rows({"AMOUNT_TOO_LOW", "AMOUNT_TOO_HIGH", "ASSET_NOT_ALLOWED", "EXPIRY_OUT_OF_RANGE",
             "ALLOW_LIST_VIOLATION"}, "POLICY", 422, FALSE)
    @@ Rows({"SIMULATION_DISABLED"}, "POLICY", 403, FALSE)

PermissionReasons ==
       Rows({"UNAUTHORIZED_SELLER", "PERMISSION_DENIED", "EXPORT_FORBIDDEN",
             "TREND_EXPORT_FORBIDDEN", "SENSITIVE_DIMENSION_FORBIDDEN", "CAPABILITY_REQUIRED",
             "APPROVAL_REQUIRED", "CORS_ORIGIN_DENIED", "IMPERSONATION_REJECTED"
             }, "PERMISSION", 403, FALSE)
    @@ Rows({"SELLER_REQUIRED"}, "PERMISSION", 400, FALSE)
    @@ Rows({"ADMIN_TOKEN_REQUIRED"}, "PERMISSION", 401, FALSE)

StaleReasons ==
       Rows({"STALE_STATE_CONFLICT", "CONFLICT", "CHECKPOINT_IN_PROGRESS"
             }, "STALE_STATE", 409, TRUE)
    @@ Rows({"INVOICE_EXPIRED", "INVOICE_ALREADY_PAID", "INVOICE_NOT_PENDING",
             "INVOICE_CANNOT_CANCEL"}, "STALE_STATE", 400, FALSE)
    @@ Rows({"INVOICE_NOT_FOUND"}, "STALE_STATE", 404, FALSE)
    @@ Rows({"EXPORT_EXPIRED"}, "STALE_STATE", 410, FALSE)
    @@ Rows({"CHECKPOINT_IN_DOUBT"}, "STALE_STATE", 409, FALSE)
    @@ Rows({"STALE_SOURCE_DATA"}, "STALE_STATE", 422, FALSE)

SettlementReasons ==
       Rows({"NO_PAYMENT_OPERATION", "MEMO_MISMATCH", "DESTINATION_MISMATCH",
             "AMOUNT_MISMATCH", "ASSET_MISMATCH", "NETWORK_MISMATCH"}, "SETTLEMENT", 400, FALSE)

DependencyReasons ==
       Rows({"RATE_LIMITED", "QUEUE_BACKPRESSURE_ACTIVE"}, "RATE_LIMIT", 429, TRUE)
    @@ Rows({"HORIZON_UNAVAILABLE", "EXTERNAL_SOURCE_UNREACHABLE"}, "DEPENDENCY", 503, TRUE)
    @@ Rows({"TRANSACTION_NOT_FOUND"}, "DEPENDENCY", 404, TRUE)
    @@ Rows({"EXTERNAL_SOURCE_TIMEOUT"}, "DEPENDENCY", 504, TRUE)
    @@ Rows({"UNEXPECTED_FAILURE"}, "UNEXPECTED", 500, TRUE)

Taxonomy ==
    VerifyRefusals @@ PaymentMismatches @@ GeneralErrors @@ AdminErrors @@ OpsErrors @@ RetryOutcomes
      @@ InvoicePathErrors @@ EmailErrors @@ ExportErrors @@ WebhookErrors @@ CapabilityErrors

Catalog ==
    ValidationReasons @@ PolicyReasons @@ PermissionReasons @@ StaleReasons @@ SettlementReasons
      @@ DependencyReasons

Phrases == {"none", "Horizon", "job not found", "Invoice not found", "sellerPublicKey", "already paid",
            "cannot be cancelled", "invoice expired", "link expired", "version mismatch", "forbidden"}

-----------------------------------------------------------------------------
\* The errors of the code: AppErrors, which carry their entry; Zod's; the error
\* classes of the modules, with a code and a status; and anything else.
AppErrors ==
    {[kind |-> "app", name |-> "AppError", code |-> c, http |-> Taxonomy[c].httpStatus, says |-> p] :
        c \in DOMAIN Taxonomy, p \in Phrases}

ModuleErrors ==
    {[kind |-> "plain", name |-> n[1], code |-> n[2], http |-> n[3], says |-> p] : p \in Phrases,
        n \in {<<"ConflictError", "CONFLICT", 0>>, <<"CheckpointInProgressError", "none", 0>>,
               <<"CheckpointInDoubtError", "none", 0>>, <<"CheckpointKeyReusedError", "none", 0>>,
               <<"ExportForbiddenError", "EXPORT_FORBIDDEN", 0>>, <<"ApprovalError", "UNKNOWN_ACTION", 400>>,
               <<"TrendExportPermissionError", "TREND_EXPORT_FORBIDDEN", 403>>,
               <<"TrendExportPermissionError", "SENSITIVE_DIMENSION_FORBIDDEN", 403>>,
               <<"TrendExportValidationError", "INVALID_TREND_EXPORT_REQUEST", 400>>,
               <<"PolicySimulationPermissionError", "POLICY_SIMULATION_FORBIDDEN", 403>>,
               <<"PolicySimulationValidationError", "INVALID_POLICY_PROPOSAL", 400>>,
               <<"PolicyDryRunError", "INVALID_CURSOR", 400>>, <<"QueueBackpressureError", "QUEUE_BACKPRESSURE_ACTIVE", 429>>,
               <<"CapabilityError", "CAPABILITY_EXPIRED", 401>>, <<"ApprovalError", "INTENT_EXPIRED", 409>>,
               <<"Error", "none", 0>>, <<"Error", "ECONNREFUSED", 0>>, <<"Error", "ETIMEDOUT", 0>>,
               <<"Error", "ECONNRESET", 0>>, <<"Error", "SOURCE_TIMEOUT", 0>>, <<"Error", "none", 403>>}}

ZodErrors ==
    {[kind |-> "zod", name |-> "ZodError", code |-> "none", http |-> 0, says |-> "none"]}

\* evaluateInvoicePolicy returns its denials, it does not throw them.
PolicyDenials ==
    {[kind |-> "denial", name |-> "none", code |-> c, http |-> 0, says |-> "none"] :
        c \in {"AMOUNT_TOO_LOW", "AMOUNT_TOO_HIGH", "ASSET_NOT_ALLOWED", "EXPIRY_OUT_OF_RANGE"}}

NoAnswer == [code |-> "none", status |-> 0, retryable |-> FALSE, shows |-> "none", reason |-> "none",
             category |-> "none", statusTold |-> 0, retryTold |-> FALSE]

Init == error \in AppErrors \cup ModuleErrors \cup ZodErrors \cup PolicyDenials /\ answer = NoAnswer

-----------------------------------------------------------------------------
NetworkCodes == {"ECONNREFUSED", "ETIMEDOUT", "ECONNRESET"}

\* classifyError: the error's own code, then a list of issues (Zod's, or the
\* simulation's), the network, the wording.
ClassifyError(e) ==
    IF e.code \in DOMAIN Taxonomy THEN e.code
    ELSE IF e.kind = "zod" \/ e.name = "PolicySimulationValidationError" THEN "VALIDATION_FAILED"
    ELSE IF e.code \in NetworkCodes \/ e.says = "Horizon" THEN "HORIZON_UNAVAILABLE"
    ELSE IF e.says \in {"job not found", "Invoice not found"} THEN "INVOICE_NOT_FOUND"
    ELSE IF e.says = "sellerPublicKey" THEN "SELLER_REQUIRED"
    ELSE IF e.says = "cannot be cancelled" THEN "INVOICE_CANNOT_CANCEL"
    ELSE IF e.says \in {"invoice expired", "link expired"} THEN "INVOICE_EXPIRED"
    ELSE "INTERNAL_ERROR"

\* buildUserSafeErrorResponse: whose words the client reads.
Shows(e) ==
    IF ClassifyError(e) = "VALIDATION_FAILED" /\ e.code \notin DOMAIN Taxonomy THEN "the field"
    ELSE IF e.kind = "app" THEN "its message"
    ELSE IF ClassifyError(e) # "INTERNAL_ERROR" THEN "its message" ELSE "the entry"

\* resolveReasonCode, whose first match decides.
NameReason(e) ==
    CASE e.name = "CheckpointInProgressError" -> "CHECKPOINT_IN_PROGRESS"
      [] e.name \in {"CheckpointInDoubtError", "CheckpointKeyReusedError"} -> "CHECKPOINT_IN_DOUBT"
      [] e.name = "ExportForbiddenError" -> "EXPORT_FORBIDDEN"
      [] e.name \in {"TrendExportPermissionError", "PolicySimulationPermissionError"} -> "PERMISSION_DENIED"
      [] e.name = "TrendExportValidationError" -> "INVALID_TREND_EXPORT_REQUEST"
      [] e.name \in {"PolicyDryRunError", "PolicySimulationValidationError"} -> "INVALID_POLICY_PROPOSAL"
      [] e.name = "CapabilityError" \/ e.code \in DOMAIN CapabilityErrors \ {"UNKNOWN_CAPABILITY_ACTION"} -> "CAPABILITY_REQUIRED"
      [] e.name = "ApprovalError" \/ e.code \in {"INTENT_EXPIRED", "APPROVALS_DISABLED"} -> "APPROVAL_REQUIRED"
      [] e.name = "AllowListError" -> "ALLOW_LIST_VIOLATION"
      [] e.name = "QueueBackpressureError" -> "QUEUE_BACKPRESSURE_ACTIVE"
      [] OTHER -> "none"

CodeReason(e) ==
    CASE e.code = "SOURCE_TIMEOUT" -> "EXTERNAL_SOURCE_TIMEOUT"
      [] e.code \in {"SOURCE_UNREACHABLE", "RETRY_EXHAUSTED"} -> "EXTERNAL_SOURCE_UNREACHABLE"
      [] e.code \in {"UNAUTHORIZED", "ADMIN_DISABLED"} \/ e.http = 401 -> "ADMIN_TOKEN_REQUIRED"
      [] e.code = "FORBIDDEN" \/ e.http = 403 -> "PERMISSION_DENIED"
      [] e.code = "INTERNAL_ERROR" -> "UNEXPECTED_FAILURE"
      [] OTHER -> "none"

PhraseReason(e) ==
    CASE e.says = "version mismatch" -> "STALE_STATE_CONFLICT"
      [] e.says = "forbidden" -> "PERMISSION_DENIED"
      [] e.says = "sellerPublicKey" -> "SELLER_REQUIRED"
      [] e.says = "already paid" -> "INVOICE_ALREADY_PAID"
      [] e.says = "cannot be cancelled" -> "INVOICE_CANNOT_CANCEL"
      [] e.says = "invoice expired" -> "INVOICE_EXPIRED"
      [] e.says = "Invoice not found" -> "INVOICE_NOT_FOUND"
      [] e.says = "Horizon" \/ e.code \in {"ECONNREFUSED", "ETIMEDOUT"} -> "HORIZON_UNAVAILABLE"
      [] OTHER -> "UNEXPECTED_FAILURE"

ResolveReasonCode(e) ==
    IF e.name = "ConflictError" \/ e.code = "OPTIMISTIC_LOCK_CONFLICT" THEN "STALE_STATE_CONFLICT"
    ELSE IF e.code \in DOMAIN Catalog THEN e.code
    ELSE IF NameReason(e) # "none" THEN NameReason(e)
    ELSE IF CodeReason(e) # "none" THEN CodeReason(e) ELSE PhraseReason(e)

\* explainRejection: a denial and a Zod error have branches of their own; else
\* the error's status and retryable, where it carries them, go before the entry's.
ExplainRejection(e) ==
    LET reason == IF e.kind = "zod" THEN "VALIDATION_FAILED"
                  ELSE IF e.kind = "denial" THEN IF e.code \in DOMAIN Catalog THEN e.code ELSE "ALLOW_LIST_VIOLATION"
                  ELSE ResolveReasonCode(e)
        entry == Catalog[reason]
    IN [reason |-> reason,
        category |-> IF e.kind = "denial" THEN "POLICY" ELSE entry.category,
        status |-> IF e.http \in 400..599 THEN e.http ELSE entry.httpStatus,
        retryable |-> IF e.kind = "app" THEN Taxonomy[e.code].retryable ELSE entry.retryable]

\* The error middleware of server.ts answers; explainRejection explains.
Answer ==
    LET code == ClassifyError(error)
        why == ExplainRejection(error)
    IN /\ answer = NoAnswer
       /\ answer' = [code |-> code, status |-> Taxonomy[code].httpStatus, retryable |-> Taxonomy[code].retryable,
                     shows |-> Shows(error), reason |-> why.reason, category |-> why.category,
                     statusTold |-> why.status, retryTold |-> why.retryable]
       /\ UNCHANGED error

Next == Answer

Spec == Init /\ [][Next]_vars

-----------------------------------------------------------------------------
Answered == answer # NoAnswer

TypeOK ==
    Answered => answer.code \in DOMAIN Taxonomy /\ answer.reason \in DOMAIN Catalog

\* The answer and its explanation give a client the same advice about a domain
\* error or a failed validation: the same status, and retry or do not.
BothViewsAgree ==
    Answered /\ error.kind \in {"app", "zod"}
        => answer.status = answer.statusTold /\ answer.retryable = answer.retryTold

\* Whoever is turned away with 401 or 403 is told it is a matter of permission.
RefusalsNamePermission ==
    Answered /\ error.kind # "denial" /\ answer.statusTold \in {401, 403} => answer.category = "PERMISSION"

\* What the code did not foresee keeps its words to itself: an error with no known
\* code, of no known class and about no known condition is answered with the
\* entry's text and explained as unexpected, never as a refusal a client could act on.
UnforeseenIsOpaque ==
    Answered /\ error.kind = "plain" /\ error.name = "Error" /\ error.http = 0
        /\ error.code \notin NetworkCodes \cup {"SOURCE_TIMEOUT"} /\ error.says = "none"
        => answer.shows = "the entry" /\ answer.reason = "UNEXPECTED_FAILURE"
=============================================================================
