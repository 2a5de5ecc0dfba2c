----------------------------- MODULE StakeFlow -----------------------------
(***************************************************************************)
(* The stake flow of the client: the dialog StakeFlow                      *)
(* (client/src/staking/StakeFlow.tsx), the record of a transaction that is *)
(* not confirmed yet (pendingIntent.ts), the polling of confirm            *)
(* (client/src/api/staking.ts), the wallet's send methods (nimiq.ts) and   *)
(* the approval of a desktop's intent on a phone                           *)
(* (components/PhoneApproveIntent.tsx).                                    *)
(*                                                                         *)
(* One wallet, one browser.  The server is what it promises to be in       *)
(* IntentLifecycle, which StakingIntents implements.  A handler runs from  *)
(* one await to the next; what awaits is a task, which outlives the dialog *)
(* that started it.  A cancel is sent without waiting for its answer.      *)
(***************************************************************************)
EXTENDS PositionRules, FiniteSets

CONSTANTS
  Wallet,       \* the address that is signed in
  Devices,      \* a subset of {"pay", "web"}
  MaxIntents,   \* bound: the intents the server opens,
  MaxTxs,       \* the transactions the wallet sends,
  MaxCancels,   \* the cancels on their way at once
  PayMounts,    \* and how often the dialog is opened inside Pay
  WebMounts     \* and in a browser

(* Ids and hashes are numbered as they are drawn.                          *)
IntentIds == 1 .. MaxIntents
TxHashes  == 1 .. MaxTxs

(* What localStorage holds, what the wallet has sent, and the server's     *)
(* rows.                                                                   *)
Records == [intent : IntentIds, hash : TxHashes \cup {None}]

Sendings == [intent : IntentIds, by : {"tab", "phone"}]

Rows == [ owner  : {Wallet},
          params : Params,
          status : {"pending", "confirmed", "failed", "expired"},
          txHash : TxHashes \cup {None} ]

ASSUME FlowAssumption ==
  /\ Wallet # None
  /\ None \notin Records \cup Sendings \cup Rows
  /\ Devices \subseteq {"pay", "web"}
  /\ MaxIntents \in Nat /\ MaxTxs \in Nat /\ MaxCancels \in Nat
  /\ PayMounts \in Nat /\ WebMounts \in Nat

VARIABLES
  device,   \* inside Nimiq Pay, or a browser that cannot sign
  chain,    \* hash -> the transaction in a block, or None
  intents,  \* the server's rows: id -> row, or None
  late,     \* the ids whose expiry has passed
  sent,     \* hash -> the intent the wallet sent it for and where, or None
  record,   \* localStorage: [intent, hash], or None
  open,     \* the dialog is there
  mounts,   \* how often it has been opened; the number of the one open now
  phase,    \* its state: phase
  review,   \* its state: the intent under review, or None
  lock,     \* ref submitLock, and with it busy
  called,   \* ref providerCalledRef
  subject,  \* the intent a success is about, or None
  tasks,    \* what awaits: [of, kind, intent, hash, dead]
  cancels,  \* cancel-pending requests on their way
  phone     \* PhoneApproveIntent: [pc, intent, hash]

vars == <<device, chain, intents, late, sent, record, open, mounts, phase, review, lock,
          called, subject, tasks, cancels, phone>>

Mounts == IF device = "pay" THEN PayMounts ELSE WebMounts

server == <<chain, intents, late>>
dialog == <<open, mounts, phase, review, lock, called, subject>>

(* What a request asks for makes no difference here.                       *)
Request == [op |-> "stake", params |-> [NoParams EXCEPT !.valueLuna = 1]]

Tx(ok) == [from |-> Wallet, op |-> "stake", value |-> 1, executionResult |-> ok]

Server == INSTANCE IntentLifecycle
            WITH Owners <- {Wallet}, Ids <- IntentIds, Hashes <- TxHashes,
                 OpenRequests <- {Request}, Entries <- {Tx(TRUE), Tx(FALSE)},
                 ledger <- chain, book <- intents

Pending == {i \in IntentIds : Server!Unsettled(i)}

Status(i) == intents[i].status

Drawn(i) == \A j \in IntentIds : intents[j] = None <=> j >= i

Loops == {"poll", "resume", "phone"}

TaskStates == [ of   : 1 .. Mounts, dead : BOOLEAN,
                kind : {"create", "insert", "clear", "wallet", "returned"} \cup Loops,
                intent : IntentIds \cup {None}, hash : TxHashes \cup {None} ]

(* A hash of None is what the wallet returned when no hash can be made of  *)
(* it; dead tells that the task's AbortController was aborted.             *)
Task(kind, i, h) == [of |-> mounts, kind |-> kind, intent |-> i, hash |-> h, dead |-> FALSE]

NoPhone == [pc |-> "none", intent |-> None, hash |-> None]

Init ==
  /\ device \in Devices
  /\ chain = [h \in TxHashes |-> None] /\ intents = [i \in IntentIds |-> None]
  /\ late = {} /\ sent = [h \in TxHashes |-> None]
  /\ record = None /\ open = FALSE /\ mounts = 0
  /\ phase = "entry" /\ review = None /\ lock = FALSE /\ called = FALSE /\ subject = None
  /\ tasks = {} /\ cancels = 0 /\ phone = NoPhone

-----------------------------------------------------------------------------
(* The dialog opens.  A record of its operation and validator is resumed,  *)
(* one past its expiry is dropped, another is left alone.                  *)
Open(matches) ==
  /\ ~open /\ mounts < Mounts
  /\ open' = TRUE /\ mounts' = mounts + 1
  /\ review' = None /\ lock' = FALSE /\ called' = FALSE /\ subject' = None
  /\ record' = IF record # None /\ record.intent \in late THEN None ELSE record
  /\ IF record' # None /\ matches
       THEN /\ phase' = "resume"
            /\ tasks' = tasks \cup {[Task("resume", record.intent, record.hash)
                                       EXCEPT !.of = mounts + 1]}
       ELSE phase' = "entry" /\ UNCHANGED tasks
  /\ UNCHANGED <<device, server, sent, cancels, phone>>

(* abortRef.current.abort(): what polls for the dialog is to stop.         *)
Aborted == {IF t.of = mounts /\ t.kind \in Loops THEN [t EXCEPT !.dead = TRUE] ELSE t : t \in tasks}

Leave == /\ open' = FALSE /\ phase' = "entry" /\ review' = None
         /\ lock' = FALSE /\ called' = FALSE /\ subject' = None
         /\ UNCHANGED mounts

(* abandonReviewIntent: the record goes at once, the rest is up to the     *)
(* server.                                                                 *)
Abandon == record' = None /\ cancels < MaxCancels /\ cancels' = cancels + 1

(* handleClose, of the backdrop and the buttons.                           *)
Close ==
  /\ open /\ phase \notin {"wallet", "polling"}
  /\ Leave /\ tasks' = Aborted
  /\ IF phase = "phone-approve" \/ (review # None /\ ~called)
       THEN Abandon
       ELSE UNCHANGED <<record, cancels>>
  /\ UNCHANGED <<device, server, sent, phone>>

(* The user goes to another page.                                          *)
Unmount ==
  /\ open
  /\ Leave /\ tasks' = Aborted
  /\ UNCHANGED <<device, server, sent, record, cancels, phone>>

(* The page is loaded again, or the browser dies.                          *)
Reload ==
  /\ Leave /\ tasks' = {}
  /\ tasks # {}
  /\ UNCHANGED <<device, server, sent, record, cancels, phone>>

-----------------------------------------------------------------------------
(* handleContinueToReview                                                  *)

(* The position or the amount will not do; a position that is Pending says *)
(* so, and offers to clear what is pending.                                *)
ContinueRefused ==
  /\ open /\ phase = "entry" /\ ~lock
  /\ phase' \in {"error", "blocked"}
  /\ UNCHANGED <<device, server, sent, record, open, mounts, review, lock, called, subject,
                 tasks, cancels, phone>>

Continue ==
  /\ open /\ phase = "entry" /\ ~lock
  /\ phase' = "creating" /\ lock' = TRUE /\ called' = FALSE
  /\ tasks' = tasks \cup {Task("create", None, None)}
  /\ UNCHANGED <<device, server, sent, record, open, mounts, review, subject, cancels, phone>>

Here(t) == open /\ t.of = mounts

(* The task ends and its dialog, if it is still there, shows p.            *)
EndsWith(t, p) ==
  /\ tasks' = tasks \ {t}
  /\ IF Here(t) THEN phase' = p /\ lock' = FALSE ELSE UNCHANGED <<phase, lock>>

(* The request reaches the server, which expires what was abandoned.       *)
CreateArrives(t) ==
  /\ t.kind = "create"
  /\ Server!Lapse(Pending, Wallet)
  /\ tasks' = (tasks \ {t}) \cup {[t EXCEPT !.kind = "insert"]}
  /\ UNCHANGED <<device, late, sent, record, dialog, cancels, phone>>

(* Mutant: the review is shown before its intent is known.                 *)
CreateAnswersBare(t, i) ==
  /\ t.kind = "insert"
  /\ Drawn(i) /\ Server!Open(i, Wallet, Request)
  /\ EndsWith(t, "review")
  /\ UNCHANGED <<device, late, sent, record, open, mounts, review, called, subject, cancels, phone>>

CreateAnswers(t, i) ==
  /\ t.kind = "insert"
  /\ Drawn(i) /\ Server!Open(i, Wallet, Request)
  /\ EndsWith(t, "review")
  /\ review' = IF Here(t) THEN i ELSE review
  /\ UNCHANGED <<device, late, sent, record, open, mounts, called, subject, cancels, phone>>

(* It is refused or fails, or its answer is lost.                          *)
CreateFails(t) ==
  /\ t.kind \in {"create", "insert"}
  /\ \/ UNCHANGED <<chain, intents>>
     \/ t.kind = "insert" /\ \E i \in IntentIds : Drawn(i) /\ Server!Open(i, Wallet, Request)
  /\ EndsWith(t, "error")
  /\ UNCHANGED <<device, late, sent, record, open, mounts, review, called, subject, cancels, phone>>

-----------------------------------------------------------------------------
(* Mutant: the record is written before the wallet is asked.               *)
ReviewConfirmSavesFirst ==
  /\ open /\ phase = "review" /\ review # None /\ ~lock /\ ~called
  /\ IF device = "pay"
       THEN /\ phase' = "wallet" /\ lock' = TRUE /\ called' = TRUE
            /\ record' = [intent |-> review, hash |-> None]
            /\ tasks' = tasks \cup {Task("wallet", review, None)}
       ELSE /\ phase' = "phone-approve" /\ UNCHANGED <<record, lock, called>>
            /\ tasks' = tasks \cup {Task("phone", review, None)}
  /\ UNCHANGED <<device, server, sent, open, mounts, review, subject, cancels, phone>>

(* handleReviewConfirm: inside Pay the wallet is asked, in a browser the   *)
(* phone is waited for.                                                    *)
ReviewConfirm ==
  /\ open /\ phase = "review" /\ review # None /\ ~lock /\ ~called
  /\ IF device = "pay"
       THEN /\ phase' = "wallet" /\ lock' = TRUE /\ called' = TRUE
            /\ tasks' = tasks \cup {Task("wallet", review, None)}
       ELSE /\ phase' = "phone-approve" /\ UNCHANGED <<lock, called>>
            /\ tasks' = tasks \cup {Task("phone", review, None)}
  /\ UNCHANGED <<device, server, sent, record, open, mounts, review, subject, cancels, phone>>

(* handleCancelReview, and the cancel button of phone-approve.             *)
CancelReview ==
  /\ open /\ phase \in {"review", "phone-approve"}
  /\ Abandon
  /\ tasks' = IF phase = "phone-approve" THEN Aborted ELSE tasks
  /\ phase' = "entry" /\ review' = None /\ called' = FALSE
  /\ UNCHANGED <<device, server, sent, open, mounts, lock, subject, phone>>

(* resetToEntry                                                            *)
TryAgain ==
  /\ open /\ phase = "error"
  /\ phase' = "entry" /\ review' = None /\ called' = FALSE
  /\ UNCHANGED <<device, server, sent, record, open, mounts, lock, subject, tasks, cancels, phone>>

(* handleClearPendingAndRetry waits for the cancel.                        *)
ClearPending ==
  /\ open /\ phase = "blocked" /\ ~lock
  /\ record' = None /\ lock' = TRUE
  /\ tasks' = tasks \cup {Task("clear", None, None)}
  /\ UNCHANGED <<device, server, sent, open, mounts, phase, review, called, subject, cancels, phone>>

Cleared(t) ==
  /\ t.kind = "clear"
  /\ Server!Lapse(Pending, Wallet) \/ UNCHANGED <<chain, intents>>
  /\ EndsWith(t, "entry")
  /\ IF Here(t) THEN review' = None /\ called' = FALSE ELSE UNCHANGED <<review, called>>
  /\ UNCHANGED <<device, late, sent, record, open, mounts, subject, cancels, phone>>

(* A cancel reaches the server, or never does.                             *)
CancelEnds ==
  /\ cancels > 0 /\ cancels' = cancels - 1
  /\ Server!Lapse(Pending, Wallet) \/ UNCHANGED <<chain, intents>>
  /\ UNCHANGED <<device, late, sent, record, dialog, tasks, phone>>

-----------------------------------------------------------------------------
(* The wallet.                                                             *)

Sends(i, h, by) ==
  /\ \A g \in TxHashes : sent[g] = None <=> g >= h
  /\ sent' = [sent EXCEPT ![h] = [intent |-> i, by |-> by]]

(* The user approves and the transaction is out; the answer is a hash, a   *)
(* serialized transaction of which a hash is made, or something else.      *)
WalletSends(t) ==
  /\ t.kind = "wallet"
  /\ \E h \in TxHashes, hash \in TxHashes \cup {None} :
       /\ Sends(t.intent, h, "tab")
       /\ hash \in {h, None}
       /\ tasks' = (tasks \ {t}) \cup {[t EXCEPT !.kind = "returned", !.hash = hash]}
  /\ UNCHANGED <<device, server, record, dialog, cancels, phone>>

(* The transaction is recorded before it is confirmed, whether the dialog  *)
(* is still there or not.                                                  *)
WalletReturns(t) ==
  /\ t.kind = "returned"
  /\ record' = [intent |-> t.intent, hash |-> t.hash]
  /\ tasks' = (tasks \ {t}) \cup {[t EXCEPT !.kind = "poll"]}
  /\ phase' = IF Here(t) THEN "polling" ELSE phase
  /\ UNCHANGED <<device, server, sent, open, mounts, review, lock, called, subject, cancels, phone>>

(* Mutant: a refusal of the wallet leaves the dialog where it was.         *)
WalletRefusesUnseen(t) ==
  /\ t.kind = "wallet"
  /\ Abandon
  /\ EndsWith(t, phase)
  /\ called' = IF Here(t) THEN FALSE ELSE called
  /\ UNCHANGED <<device, server, sent, open, mounts, review, subject, phone>>

(* The user refuses or the wallet fails.                                   *)
WalletRefuses(t) ==
  /\ t.kind = "wallet"
  /\ Abandon
  /\ EndsWith(t, "error")
  /\ called' = IF Here(t) THEN FALSE ELSE called
  /\ UNCHANGED <<device, server, sent, open, mounts, review, subject, phone>>

-----------------------------------------------------------------------------
(* pollConfirmStakingIntent.  An answer of TX_PENDING changes nothing; an  *)
(* aborted poll may still get the answer it was waiting for.               *)

(* The server confirms the intent i with the hash h.                       *)
Confirms(i, h) ==
  /\ h # None /\ i \notin late
  /\ chain[h] # None /\ chain[h].executionResult
  /\ Server!Settle(i, h)

(* It refuses: no hash, no row that is pending, a transaction that failed; *)
(* or the call fails on the way there or back.                             *)
ConfirmFails(i, h) ==
  \/ UNCHANGED <<chain, intents>>
  \/ Status(i) = "pending" /\ i \in late /\ Server!Lapse({i}, Wallet)
  \/ /\ h # None /\ i \notin late /\ chain[h] # None
     /\ Server!Settle(i, h)

(* Mutant: an answer without an error is taken for a confirmation.         *)
PollConfirmedWhenPending(t) ==
  /\ t.kind \in {"poll", "resume"}
  /\ Confirms(t.intent, t.hash) \/ (Status(t.intent) = "pending" /\ UNCHANGED <<chain, intents>>)
  /\ record' = None
  /\ EndsWith(t, "success")
  /\ subject' = IF Here(t) THEN t.intent ELSE subject
  /\ UNCHANGED <<device, late, sent, open, mounts, review, called, cancels, phone>>

PollConfirmed(t) ==
  /\ t.kind \in {"poll", "resume"}
  /\ Confirms(t.intent, t.hash)
  /\ record' = None
  /\ EndsWith(t, "success")
  /\ subject' = IF Here(t) THEN t.intent ELSE subject
  /\ UNCHANGED <<device, late, sent, open, mounts, review, called, cancels, phone>>

(* Mutant: the user may approve again what could not be confirmed.         *)
PollFailsToReview(t) ==
  /\ t.kind \in {"poll", "resume"}
  /\ ConfirmFails(t.intent, t.hash)
  /\ record' = None
  /\ EndsWith(t, IF t.kind = "poll" THEN "review" ELSE "error")
  /\ called' = IF Here(t) /\ t.kind = "poll" THEN FALSE ELSE called
  /\ UNCHANGED <<device, late, sent, open, mounts, review, subject, cancels, phone>>

PollFails(t) ==
  /\ t.kind \in {"poll", "resume"}
  /\ ConfirmFails(t.intent, t.hash)
  /\ record' = None
  /\ EndsWith(t, "error")
  /\ called' = IF Here(t) /\ t.kind = "poll" THEN FALSE ELSE called
  /\ UNCHANGED <<device, late, sent, open, mounts, review, subject, cancels, phone>>

(* CONFIRM_TIMEOUT: the record stays.                                      *)
PollTimesOut(t) ==
  /\ t.kind \in {"poll", "resume"} /\ ~t.dead
  /\ EndsWith(t, "error")
  /\ called' = IF Here(t) /\ t.kind = "poll" THEN FALSE ELSE called
  /\ UNCHANGED <<device, server, sent, record, open, mounts, review, subject, cancels, phone>>

(* CONFIRM_ABORTED, or the end of the desktop's loop.                      *)
LoopAborted(t) ==
  /\ t.dead
  /\ tasks' = tasks \ {t}
  /\ UNCHANGED <<device, server, sent, record, dialog, cancels, phone>>

(* The desktop's loop reads the intent; a read that was on its way when    *)
(* the loop was aborted is still believed, one that fails is not.          *)
PhoneLoopConfirmed(t) ==
  /\ t.kind = "phone" /\ Status(t.intent) = "confirmed"
  /\ tasks' = tasks \ {t}
  /\ IF Here(t) THEN phase' = "success" /\ subject' = t.intent ELSE UNCHANGED <<phase, subject>>
  /\ UNCHANGED <<device, server, sent, record, open, mounts, review, lock, called, cancels, phone>>

PhoneLoopEnds(t) ==
  /\ t.kind = "phone"
  /\ \/ Status(t.intent) \in {"failed", "expired"} /\ UNCHANGED <<chain, intents>>
     \/ Status(t.intent) = "pending" /\ t.intent \in late /\ Server!Lapse({t.intent}, Wallet)
     \/ ~t.dead /\ UNCHANGED <<chain, intents>>
  /\ tasks' = tasks \ {t}
  /\ phase' = IF Here(t) THEN "error" ELSE phase
  /\ UNCHANGED <<device, late, sent, record, open, mounts, review, lock, called, subject, cancels, phone>>

-----------------------------------------------------------------------------
(* PhoneApproveIntent, opened through the QR code of phone-approve.        *)

others == <<device, sent, record, dialog, tasks, cancels>>

(* The page is opened on the phone, or opened again: an intent that is     *)
(* pending can be approved there.                                          *)
PhoneOpens ==
  /\ phone.pc # "done"
  /\ \E i \in IntentIds :
       /\ i = phone.intent \/ (phase = "phone-approve" /\ i = review)
       /\ IF Status(i) = "pending" /\ i \notin late
            THEN phone' = [pc |-> "ready", intent |-> i, hash |-> None] /\ UNCHANGED intents
            ELSE /\ phone' = [NoPhone EXCEPT !.intent = i]
                 /\ IF Status(i) = "pending" THEN Server!Lapse({i}, Wallet) ELSE UNCHANGED intents
  /\ UNCHANGED <<others, chain, late>>

(* runApprove, up to the answer of the wallet.                             *)
PhoneSends ==
  /\ phone.pc = "ready"
  /\ \E h \in TxHashes, hash \in TxHashes \cup {None} :
       /\ Sends(phone.intent, h, "phone")
       /\ hash \in {h, None}
       /\ phone' = [phone EXCEPT !.pc = "poll", !.hash = hash]
  /\ UNCHANGED <<device, server, record, dialog, tasks, cancels>>

PhoneConfirmed ==
  /\ phone.pc = "poll"
  /\ Confirms(phone.intent, phone.hash)
  /\ phone' = [NoPhone EXCEPT !.pc = "done"]
  /\ UNCHANGED <<others, late>>

(* A poll that times out or fails leaves the review as it was.             *)
PhoneFails ==
  /\ phone.pc = "poll"
  /\ ConfirmFails(phone.intent, phone.hash)
  /\ phone' = [phone EXCEPT !.pc = "ready", !.hash = None]
  /\ UNCHANGED <<others, late>>

PhoneCancels ==
  /\ phone.pc = "ready"
  /\ phone' = NoPhone
  /\ UNCHANGED <<others, server>>

-----------------------------------------------------------------------------
(* The chain and the clock.                                                *)
Mine(h, ok) ==
  /\ sent[h] # None
  /\ Server!Record(Tx(ok), h)
  /\ UNCHANGED <<others, late, phone>>

(* The expiry of an intent, while it can still make a difference.          *)
TimePasses(i) ==
  /\ intents[i] # None /\ i \notin late
  /\ Status(i) = "pending" \/ (record # None /\ record.intent = i)
  /\ late' = late \cup {i}
  /\ UNCHANGED <<others, chain, intents, phone>>

TaskStep(t) ==
  \/ CreateArrives(t) \/ CreateFails(t) \/ \E i \in IntentIds : CreateAnswers(t, i)
  \/ Cleared(t)
  \/ WalletSends(t) \/ WalletReturns(t) \/ WalletRefuses(t)
  \/ PollConfirmed(t) \/ PollFails(t) \/ PollTimesOut(t) \/ LoopAborted(t)
  \/ PhoneLoopConfirmed(t) \/ PhoneLoopEnds(t)

Next ==
  \/ \E matches \in BOOLEAN : Open(matches)
  \/ Close \/ Unmount \/ Reload
  \/ Continue \/ ContinueRefused \/ ReviewConfirm \/ CancelReview \/ TryAgain \/ ClearPending
  \/ \E t \in tasks : TaskStep(t)
  \/ CancelEnds
  \/ PhoneOpens \/ PhoneSends \/ PhoneConfirmed \/ PhoneFails \/ PhoneCancels
  \/ \E h \in TxHashes, ok \in BOOLEAN : Mine(h, ok)
  \/ \E i \in IntentIds : TimePasses(i)

Spec == Init /\ [][Next]_vars

(* The server answers, the user answers the wallet, and every loop has its *)
(* budget of time.  Nobody has to press a button of the dialog.            *)
FairSpec ==
  /\ Spec
  /\ \A n \in 1 .. PayMounts + WebMounts : WF_vars(\E t \in tasks : t.of = n /\ TaskStep(t))
  /\ WF_vars(CancelEnds)

-----------------------------------------------------------------------------
(* The state of the tab, the phone and the server.                         *)
TypeOK ==
  /\ device \in Devices
  /\ chain \in [TxHashes -> {Tx(TRUE), Tx(FALSE)} \cup {None}]
  /\ intents \in [IntentIds -> Rows \cup {None}]
  /\ late \subseteq {i \in IntentIds : intents[i] # None}
  /\ sent \in [TxHashes -> Sendings \cup {None}]
  /\ record \in Records \cup {None}
  /\ open \in BOOLEAN /\ lock \in BOOLEAN /\ called \in BOOLEAN
  /\ mounts \in 0 .. Mounts /\ cancels \in 0 .. MaxCancels
  /\ phase \in {"entry", "creating", "review", "wallet", "phone-approve", "polling",
                "success", "error", "blocked", "resume"}
  /\ review \in IntentIds \cup {None} /\ subject \in IntentIds \cup {None}
  /\ tasks \subseteq TaskStates
  /\ phone \in [pc : {"none", "ready", "poll", "done"}, intent : IntentIds \cup {None},
                hash : TxHashes \cup {None}]
  /\ phase = "review" => review # None

(* The dialog says success only of an intent the server has confirmed by a *)
(* transaction in a block: whichever device sent it, after a reload, and   *)
(* when answers come to a dialog that has moved on (StakeFlow marks        *)
(* success only after chain match).                                        *)
SuccessIsConfirmed ==
  open /\ phase = "success" =>
    /\ subject # None /\ Status(subject) = "confirmed"
    /\ chain[intents[subject].txHash] # None

(* Inside Pay a review that is confirmed sends one transaction at most:    *)
(* not again after a timeout, an error, a reload or a resume.  The phone's *)
(* page gives no such guarantee.                                           *)
OneTransactionPerReview ==
  \A g, h \in TxHashes :
    /\ sent[g] # None /\ sent[h] # None
    /\ sent[g] = sent[h] /\ sent[g].by = "tab"
    => g = h

(* A record that is kept is of a transaction the wallet has sent for that  *)
(* very intent, or of one it gave no hash of, however many dialogs have    *)
(* written and cleared it.                                                 *)
RecordWasSent ==
  record # None =>
    \E h \in TxHashes : /\ record.hash \in {h, None}
                        /\ sent[h] = [intent |-> record.intent, by |-> "tab"]

(* The dialog never stays in a state that waits: it gets to a review, a    *)
(* success, an error or the entry, and the lock on its buttons is let go.  *)
Waiting == phase \in {"creating", "wallet", "polling", "resume", "phone-approve"}

DialogComesBack == (open /\ (Waiting \/ lock)) ~> ~(open /\ (Waiting \/ lock))

-----------------------------------------------------------------------------
(* The comment of handleClose (StakeFlow.tsx:704): closing without a chain *)
(* transaction frees the pending lock, not while the phone may still       *)
(* approve.  So closing never abandons an intent that was paid for.        *)
CloseAbandonsNothingSent ==
  [][open /\ ~open' /\ cancels' > cancels =>
       \A h \in TxHashes : sent[h] = None \/ sent[h].intent # review]_vars
=============================================================================
