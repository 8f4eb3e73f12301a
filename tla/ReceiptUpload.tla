------------------------------ MODULE ReceiptUpload ------------------------------
(***************************************************************************)
(* What becomes of signed receipts: `receipt create` and the pre-push hook *)
(* record the outcome of each ref and upload what they saved, and `receipt *)
(* upload` tries again, all at once if the user likes (capturePush,        *)
(* uploadReceipt and runReceiptCreate in cmd/receipt_workflow.go,          *)
(* internal/changereceipt/upload.go, signed_receipts.go).                  *)
(*                                                                         *)
(* The creation of a receipt, which Receipt describes, is one step.        *)
(***************************************************************************)
EXTENDS Integers

CONSTANTS Commands,
          Updates,      \* [Commands -> Nat]: of a push, the refs; 1 of `receipt create`,
                        \* 0 of `receipt upload`
          NotReceipted, \* refs of a push that get no receipt: tags, deletions
          NoReceipt,
          Attempts,     \* of one upload, as the code has them
          MaxFaults     \* bound on failures

Retries(c) == Updates[c] = 0
RefUpdates == UNION {{<<c, i>> : i \in 1 .. Updates[c]} : c \in Commands}

ASSUME UploadAssumption ==
    /\ Updates \in [Commands -> Nat] /\ NotReceipted \subseteq RefUpdates
    /\ NoReceipt \notin RefUpdates
    /\ Attempts \in Nat \ {0} /\ MaxFaults \in Nat

VARIABLES upload,       \* signed_change_receipts_v1: the state, "none" without a row,
          acknowledged, \*   and the rows that have an acknowledgement
          outcome,      \* receipt_capture_outcomes_v1; "lost" if it could not be written
          accepted,     \* the server: receipts,
          late,         \*   requests whose client has stopped waiting
          place, at,    \* a command's place, and the ref that it is at
          job, todo,    \* the receipt that it uploads, those that it still has to
          attempt,      \* requests without an answer, in this upload
          spent,        \* its 45 seconds are over
          result,       \* what it is about to store
          faults

storeVars  == <<upload, acknowledged, outcome>>
serverVars == <<accepted, late>>
jobVars == <<job, todo, attempt, spent, result>>
uploadVars == <<storeVars, serverVars, place, at, jobVars, faults>>

States == {"pending", "failed", "uploaded"}

UploadTypeOK ==
    /\ upload \in [RefUpdates -> States \union {"none"}]
    /\ acknowledged \subseteq RefUpdates
    /\ outcome \in [RefUpdates -> {"none", "skipped", "creation_failed", "generated", "lost"}]
    /\ accepted \subseteq RefUpdates /\ late \subseteq RefUpdates
    /\ place \in [Commands -> {"idle", "next", "report", "upload", "post", "settle",
                            "done", "stopped"}]
    /\ at \in [Commands -> Nat]
    /\ job \in [Commands -> RefUpdates \union {NoReceipt}]
    /\ todo \in [Commands -> SUBSET RefUpdates]
    /\ attempt \in [Commands -> 0 .. Attempts] /\ spent \in [Commands -> BOOLEAN]
    /\ result \in [Commands -> States \union {"none"}]
    /\ \A c \in Commands :
         /\ place[c] \in {"post", "settle"} <=> job[c] # NoReceipt
         /\ place[c] = "settle" <=> result[c] # "none"
    /\ faults \in 0 .. MaxFaults

UploadInit ==
    /\ upload = [r \in RefUpdates |-> "none"] /\ acknowledged = {}
    /\ outcome = [r \in RefUpdates |-> "none"]
    /\ accepted = {} /\ late = {}
    /\ place = [c \in Commands |-> "idle"] /\ at = [c \in Commands |-> 1]
    /\ job = [c \in Commands |-> NoReceipt] /\ todo = [c \in Commands |-> {}]
    /\ attempt = [c \in Commands |-> 0] /\ spent = [c \in Commands |-> FALSE]
    /\ result = [c \in Commands |-> "none"]
    /\ faults = 0

Fault == faults < MaxFaults /\ faults' = faults + 1
Proceed(c, label) == place' = [place EXCEPT ![c] = label]

-----------------------------------------------------------------------------
\* The loop of capturePush, and runReceiptCreate, which is one round of it

This(c) == <<c, at[c]>>

Start(c) ==
    /\ place[c] = "idle" /\ ~Retries(c)
    /\ Proceed(c, "next")
    /\ UNCHANGED <<storeVars, serverVars, at, jobVars, faults>>

\* A row of receipt_capture_outcomes_v1; errors of CaptureOutcome are ignored.
Report(r, label) ==
    \/ outcome' = [outcome EXCEPT ![r] = label] /\ UNCHANGED faults
    \/ outcome' = [outcome EXCEPT ![r] = "lost"] /\ Fault

NextRef(c) == at' = [at EXCEPT ![c] = @ + 1] /\ Proceed(c, "next")

SkipRef(c) ==
    /\ place[c] = "next" /\ at[c] <= Updates[c] /\ This(c) \in NotReceipted
    /\ Report(This(c), "skipped")
    /\ NextRef(c)
    /\ UNCHANGED <<upload, acknowledged, serverVars, jobVars>>

\* createReceipt: what counts here is that the artifact has a row.
CreateReceipt(c) ==
    /\ place[c] = "next" /\ at[c] <= Updates[c] /\ This(c) \notin NotReceipted
    /\ upload' = [upload EXCEPT ![This(c)] = "pending"]
    /\ Proceed(c, "report")
    /\ UNCHANGED <<acknowledged, outcome, serverVars, at, jobVars, faults>>

ReportGenerated(c) ==
    /\ place[c] = "report"
    /\ Report(This(c), "generated")
    /\ todo' = [todo EXCEPT ![c] = @ \union {This(c)}]
    /\ NextRef(c)
    /\ UNCHANGED <<upload, acknowledged, serverVars, job, attempt, spent, result>>

\* The push returns at the first ref that fails.
CreationFails_EndsPush(c) ==
    /\ place[c] = "next" /\ at[c] <= Updates[c] /\ This(c) \notin NotReceipted
    /\ Fault
    /\ \E label \in {"creation_failed", "lost"} : outcome' = [outcome EXCEPT ![This(c)] = label]
    /\ at' = [at EXCEPT ![c] = @ + 1]
    /\ Proceed(c, "done")
    /\ UNCHANGED <<upload, acknowledged, serverVars, jobVars>>

\* Any error in createReceipt, and a push of the target branch without a base of
\* its own: the push goes on with its next ref.
CreationFails(c) ==
    /\ place[c] = "next" /\ at[c] <= Updates[c] /\ This(c) \notin NotReceipted
    /\ Fault
    /\ \E label \in {"creation_failed", "lost"} : outcome' = [outcome EXCEPT ![This(c)] = label]
    /\ NextRef(c)
    /\ UNCHANGED <<upload, acknowledged, serverVars, jobVars>>

-----------------------------------------------------------------------------
\* uploadReceipt

UploadOnly == UNCHANGED <<outcome, at>>

\* Every ref has been dealt with: now all receipts are uploaded, in one budget of
\* time.
BeginUploads(c) ==
    /\ place[c] = "next" /\ at[c] > Updates[c]
    /\ Proceed(c, "upload")
    /\ UNCHANGED <<upload, acknowledged, serverVars, jobVars, faults>> /\ UploadOnly

\* `receipt upload` of any saved receipt, as often as the user likes.
Retry(c, r) ==
    /\ place[c] = "idle" /\ Retries(c) /\ upload[r] # "none"
    /\ todo' = [todo EXCEPT ![c] = {r}]
    /\ Proceed(c, "upload")
    /\ UNCHANGED <<upload, acknowledged, serverVars, job, attempt, spent, result, faults>>
    /\ UploadOnly

\* In the order of the refs.
BeginUpload(c) ==
    /\ place[c] = "upload"
    /\ \E r \in todo[c] :
         /\ \A q \in todo[c] : r[2] <= q[2]
         /\ job' = [job EXCEPT ![c] = r]
         /\ todo' = [todo EXCEPT ![c] = @ \ {r}]
    /\ Proceed(c, "post")
    /\ UNCHANGED <<upload, acknowledged, serverVars, attempt, spent, result, faults>> /\ UploadOnly

Answer(c, state) ==
    /\ place[c] = "post"
    /\ result' = [result EXCEPT ![c] = state]
    /\ Proceed(c, "settle")
    /\ UNCHANGED <<upload, acknowledged, job, todo, attempt>> /\ UploadOnly

\* 200 or 201, with an acknowledgement that is about this receipt.
Acknowledged(c) ==
    /\ ~spent[c] /\ attempt[c] < Attempts
    /\ Answer(c, "uploaded")
    /\ accepted' = accepted \union {job[c]}
    /\ UNCHANGED <<late, spent, faults>>

\* Another status that is not worth a retry, an acknowledgement that does not hold,
\* or an integration that does not allow any request.
Refused(c) ==
    /\ ~spent[c] /\ attempt[c] < Attempts /\ Fault
    /\ Answer(c, "failed")
    /\ accepted' \in {accepted, accepted \union {job[c]}}
    /\ UNCHANGED <<late, spent>>

\* No answer in five seconds, no connection, or an error of the server that may
\* pass: 408, 429, 5xx.  The request may still arrive.
Unanswered(c) ==
    /\ place[c] = "post" /\ ~spent[c] /\ attempt[c] < Attempts /\ Fault
    /\ late' \in {late, late \union {job[c]}}
    /\ attempt' = [attempt EXCEPT ![c] = @ + 1]
    /\ UNCHANGED <<upload, acknowledged, accepted, place, job, todo, spent, result>> /\ UploadOnly

OutOfAttempts(c) ==
    /\ attempt[c] = Attempts
    /\ Answer(c, "pending")
    /\ UNCHANGED <<serverVars, spent, faults>>

\* The 45 seconds of the whole command are over, or would be before the next attempt.
OutOfTime(c) ==
    /\ spent[c] \/ attempt[c] \in 1 .. Attempts - 1
    /\ Answer(c, "pending")
    /\ spent' \in {spent, [spent EXCEPT ![c] = TRUE]}
    /\ UNCHANGED <<serverVars, faults>>

Settled(c) ==
    /\ job' = [job EXCEPT ![c] = NoReceipt] /\ result' = [result EXCEPT ![c] = "none"]
    /\ attempt' = [attempt EXCEPT ![c] = 0]
    /\ Proceed(c, "upload")
    /\ UNCHANGED <<serverVars, todo, spent>> /\ UploadOnly

\* A failed upload leaves the acknowledgement of an earlier one.
Settle_KeepsAcknowledgement(c) ==
    /\ place[c] = "settle"
    /\ upload' = [upload EXCEPT ![job[c]] = result[c]]
    /\ acknowledged' = IF result[c] = "uploaded" THEN acknowledged \union {job[c]}
                                                 ELSE acknowledged
    /\ Settled(c)
    /\ UNCHANGED faults

\* UPDATE ... WHERE upload_state='pending'
Settle_PendingOnly(c) ==
    /\ place[c] = "settle"
    /\ IF upload[job[c]] = "pending"
       THEN /\ upload' = [upload EXCEPT ![job[c]] = result[c]]
            /\ acknowledged' = IF result[c] = "uploaded" THEN acknowledged \union {job[c]}
                                                         ELSE acknowledged
       ELSE UNCHANGED <<upload, acknowledged>>
    /\ Settled(c)
    /\ UNCHANGED faults

\* ReceiptUploadOutcome, whatever the row says by now.
Settle(c) ==
    /\ place[c] = "settle"
    /\ upload' = [upload EXCEPT ![job[c]] = result[c]]
    /\ acknowledged' = IF result[c] = "uploaded" THEN acknowledged \union {job[c]}
                                                 ELSE acknowledged \ {job[c]}
    /\ Settled(c)
    /\ UNCHANGED faults

\* The outcome cannot be stored.
SettleFails(c) ==
    /\ place[c] = "settle" /\ Fault
    /\ Settled(c)
    /\ UNCHANGED <<upload, acknowledged>>

Finish(c) ==
    /\ place[c] = "upload" /\ todo[c] = {}
    /\ Proceed(c, IF Retries(c) THEN "idle" ELSE "done")
    /\ spent' = [spent EXCEPT ![c] = FALSE]
    /\ UNCHANGED <<upload, acknowledged, serverVars, job, todo, attempt, result, faults>>
    /\ UploadOnly

\* A kill; or an error of capturePush before its first ref.
Kill(c) ==
    /\ place[c] \notin {"idle", "done", "stopped"} /\ Fault
    /\ Proceed(c, IF Retries(c) THEN "idle" ELSE "stopped")
    /\ job' = [job EXCEPT ![c] = NoReceipt] /\ todo' = [todo EXCEPT ![c] = {}]
    /\ attempt' = [attempt EXCEPT ![c] = 0] /\ spent' = [spent EXCEPT ![c] = FALSE]
    /\ result' = [result EXCEPT ![c] = "none"]
    /\ late' \in {late, late \union {job[c]}}
    /\ place[c] # "post" => late' = late
    /\ UNCHANGED <<storeVars, accepted, at>>

\* A request that was given up reaches the server, or never does.
ArriveLate(r) ==
    /\ r \in late
    /\ late' = late \ {r} /\ accepted' \in {accepted, accepted \union {r}}
    /\ UNCHANGED <<storeVars, place, at, jobVars, faults>>

-----------------------------------------------------------------------------
Capture(c) == Start(c) \/ SkipRef(c) \/ CreateReceipt(c) \/ ReportGenerated(c) \/ CreationFails(c)

Upload(c) ==
    \/ BeginUploads(c) \/ BeginUpload(c) \/ Acknowledged(c) \/ OutOfAttempts(c)
    \/ OutOfTime(c) \/ Settle(c) \/ Finish(c)

Fails(c) == Refused(c) \/ Unanswered(c) \/ SettleFails(c) \/ Kill(c)

UploadNext ==
    \/ \E c \in Commands : Capture(c) \/ Upload(c) \/ Fails(c)
    \/ \E c \in Commands, r \in RefUpdates : Retry(c, r)
    \/ \E r \in RefUpdates : ArriveLate(r)

UploadSpec == UploadInit /\ [][UploadNext]_uploadVars

\* Commands that run go on, and the user retries what is not uploaded.
FairUpload ==
    /\ UploadSpec
    /\ \A c \in Commands : WF_uploadVars(Upload(c))
    /\ \A r \in RefUpdates :
         SF_uploadVars(upload[r] # "uploaded" /\ \E c \in Commands : Retry(c, r))

-----------------------------------------------------------------------------
\* Properties

\* What status reports: a ref has a receipt exactly if that receipt is saved, and a
\* push that ends normally has answered for every ref, although some have failed.
RefsAnswered ==
    \A r \in RefUpdates :
        /\ outcome[r] = "generated" => upload[r] # "none"
        /\ outcome[r] \in {"skipped", "creation_failed"} => upload[r] = "none"
        /\ place[r[1]] = "done" => outcome[r] # "none"

\* A receipt is called uploaded only with the acknowledgement of a server that has
\* accepted it, whichever of several uploads finished last.
UploadedIsAccepted ==
    \A r \in RefUpdates :
        /\ upload[r] = "uploaded" <=> r \in acknowledged
        /\ upload[r] = "uploaded" => r \in accepted

\* A receipt that is saved is known to be uploaded in the end, and stays so once
\* failures stop, although a slow failing upload can overwrite a success.
EventuallyUploaded ==
    \A r \in RefUpdates : <>[](upload[r] \in {"none", "uploaded"})
=================================================================================
