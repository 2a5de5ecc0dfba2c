---------------------------- MODULE StakeFlowProofs ----------------------------
(***************************************************************************)
(* Proofs about StakeFlow, for every value of its constants.               *)
(***************************************************************************)
EXTENDS StakeFlow, TLAPS

-----------------------------------------------------------------------------
(* The inductive invariant.                                                *)

HasRow(i) == i \in IntentIds /\ intents[i] # None

ByTab(i, h) == sent[h] = [intent |-> i, by |-> "tab"]

(* The tasks that are about an intent.                                     *)
Concerns == {"wallet", "returned"} \cup Loops

ConfirmedInBlock ==
  \A i \in IntentIds : intents[i] # None /\ Status(i) = "confirmed" =>
    intents[i].txHash \in TxHashes /\ chain[intents[i].txHash] # None

(* Whatever the client holds on to is an intent the server knows.          *)
RowsExist ==
  /\ \A t \in tasks : t.kind \in Concerns => HasRow(t.intent)
  /\ \A i \in IntentIds, h \in TxHashes : ByTab(i, h) => HasRow(i)
  /\ open /\ phase = "success" => HasRow(subject)
  /\ phase = "review" => HasRow(review)

(* What is under review has neither been sent nor been given to the wallet.*)
ReviewIsNew ==
  phase = "review" =>
    /\ \A h \in TxHashes : ~ByTab(review, h)
    /\ \A t \in tasks : t.kind = "wallet" => t.intent # review

(* The wallet is asked once for an intent, before it is sent.              *)
WalletAskedOnce ==
  /\ \A t \in tasks, h \in TxHashes : t.kind = "wallet" => ~ByTab(t.intent, h)
  /\ \A t, u \in tasks : t.kind = "wallet" /\ u.kind = "wallet" /\ t.intent = u.intent => t = u

WasSent(i, hash) == \E h \in TxHashes : hash \in {h, None} /\ ByTab(i, h)

ReturnedWasSent == \A t \in tasks : t.kind = "returned" => WasSent(t.intent, t.hash)

OpenIsCounted == open => mounts >= 1

PhoneHasIntent == phone.pc \in {"ready", "poll"} => phone.intent \in IntentIds

FlowInv ==
  /\ TypeOK /\ OpenIsCounted /\ PhoneHasIntent /\ ConfirmedInBlock /\ RowsExist
  /\ ReviewIsNew /\ WalletAskedOnce /\ ReturnedWasSent
  /\ SuccessIsConfirmed /\ OneTransactionPerReview /\ RecordWasSent

-----------------------------------------------------------------------------
(* What a step of the server leaves standing: rows and blocks stay, and a  *)
(* confirmed row is final.                                                 *)
Book == [IntentIds -> Rows \cup {None}]

Ledger == [TxHashes -> {Tx(TRUE), Tx(FALSE)} \cup {None}]

ServerKeeps ==
  /\ chain' \in Ledger /\ intents' \in Book
  /\ \A i \in IntentIds : intents[i] # None => intents'[i] # None
  /\ \A i \in IntentIds : intents[i] # None /\ Status(i) = "confirmed" => intents'[i] = intents[i]
  /\ \A h \in TxHashes : chain[h] # None => chain'[h] = chain[h]
  /\ ConfirmedInBlock'

ServerFacts == chain \in Ledger /\ intents \in Book /\ ConfirmedInBlock

LEMMA ServerFactsHold == FlowInv => ServerFacts
BY DEF FlowInv, TypeOK, ServerFacts, Ledger, Book

LEMMA IdleKeeps ==
  ASSUME ServerFacts, UNCHANGED <<chain, intents>>
  PROVE  ServerKeeps
BY DEF ServerFacts, ServerKeeps, ConfirmedInBlock, Status

LEMMA RowsAreNotNone == None \notin Rows /\ None \notin IntentIds
BY FlowAssumption, NoneAssumption DEF FlowAssumption, IntentIds

(* Rows that change are pending, and are Rows afterwards.                  *)
LEMMA RowsKeep ==
  ASSUME ServerFacts, chain' = chain, intents' \in Book,
         \A i \in IntentIds :
           \/ intents'[i] = intents[i]
           \/ /\ intents'[i] \in Rows
              /\ intents[i] = None \/ intents[i].status = "pending"
              /\ intents'[i].status = "confirmed" =>
                   intents'[i].txHash \in TxHashes /\ chain[intents'[i].txHash] # None
  PROVE  ServerKeeps
<1>1. \A i \in IntentIds : intents[i] # None => intents'[i] # None
  BY RowsAreNotNone
<1>2. \A i \in IntentIds : intents[i] # None /\ Status(i) = "confirmed" => intents'[i] = intents[i]
  BY DEF Status
<1>3. ConfirmedInBlock'
  BY DEF ServerFacts, ConfirmedInBlock, Status
<1>4. chain' \in Ledger /\ \A h \in TxHashes : chain[h] # None => chain'[h] = chain[h]
  BY DEF ServerFacts
<1> QED  BY <1>1, <1>2, <1>3, <1>4 DEF ServerKeeps

LEMMA LapseKeeps ==
  ASSUME ServerFacts, NEW S \in SUBSET IntentIds, Server!Lapse(S, Wallet)
  PROVE  ServerKeeps
<1>1. chain' = chain /\ \A i \in S : intents[i] # None /\ intents[i].status = "pending"
  BY DEF Server!Lapse, Server!Unsettled
<1>2. intents' = [i \in IntentIds |-> IF i \in S THEN [intents[i] EXCEPT !.status = "expired"]
                                                 ELSE intents[i]]
  BY DEF Server!Lapse
<1>3. ASSUME NEW i \in S
      PROVE  [intents[i] EXCEPT !.status = "expired"] \in Rows
             /\ [intents[i] EXCEPT !.status = "expired"].status = "expired"
  <2>1. intents[i] \in Rows
    BY <1>1 DEF ServerFacts, Book
  <2> QED  BY <2>1 DEF Rows
<1>4. intents' \in Book
  BY <1>2, <1>3 DEF ServerFacts, Book
<1>5. \A i \in IntentIds : IF i \in S THEN intents'[i] \in Rows /\ intents'[i].status = "expired"
                                      ELSE intents'[i] = intents[i]
  BY <1>2, <1>3
<1> QED  BY <1>1, <1>4, <1>5, RowsKeep

LEMMA OpenKeeps ==
  ASSUME ServerFacts, NEW i \in IntentIds, Server!Open(i, Wallet, Request)
  PROVE  ServerKeeps /\ intents[i] = None /\ intents'[i] # None
<1> DEFINE row == [ owner |-> Wallet, params |-> Request.params, status |-> "pending",
                    txHash |-> None ]
<1>1. intents[i] = None /\ chain' = chain /\ intents' = [intents EXCEPT ![i] = row]
  BY DEF Server!Open
<1>2. row \in Rows /\ row.status = "pending"
  <2>1. Request.params \in Params
    BY DEF Request, Params, NoParams, Luna
  <2> QED  BY <2>1 DEF Rows
<1> HIDE DEF row
<1>3. /\ intents' \in Book /\ intents'[i] = row
      /\ \A j \in IntentIds : j # i => intents'[j] = intents[j]
  BY <1>1, <1>2 DEF ServerFacts, Book
<1>4. ServerKeeps
  BY <1>1, <1>2, <1>3, RowsKeep
<1> QED  BY <1>1, <1>2, <1>3, <1>4, RowsAreNotNone

LEMMA SettleKeeps ==
  ASSUME ServerFacts, NEW i \in IntentIds, NEW h \in TxHashes, Server!Settle(i, h)
  PROVE  /\ ServerKeeps /\ intents'[i] # None
         /\ chain[h].executionResult => intents'[i].status = "confirmed"
<1> DEFINE row(status) == [ owner |-> intents[i].owner, params |-> intents[i].params,
                            status |-> status, txHash |-> h ]
<1>1. /\ chain' = chain /\ intents[i] # None /\ intents[i].status = "pending" /\ chain[h] # None
      /\ \E status \in {"failed", "confirmed"} :
           /\ intents' = [intents EXCEPT ![i] = row(status)]
           /\ chain[h].executionResult => status = "confirmed"
  BY DEF Server!Settle, Server!Unsettled, Server!Outcome
<1>2. PICK status \in {"failed", "confirmed"} :
        /\ intents' = [intents EXCEPT ![i] = row(status)]
        /\ chain[h].executionResult => status = "confirmed"
  BY <1>1
<1>3. row(status) \in Rows /\ row(status).status = status /\ row(status).txHash = h
  <2>1. intents[i] \in Rows
    BY <1>1 DEF ServerFacts, Book
  <2> QED  BY <2>1 DEF Rows
<1> HIDE DEF row
<1>4. /\ intents' \in Book /\ intents'[i] = row(status)
      /\ \A j \in IntentIds : j # i => intents'[j] = intents[j]
  BY <1>2, <1>3 DEF ServerFacts, Book
<1>5. ServerKeeps
  BY <1>1, <1>3, <1>4, RowsKeep
<1> QED  BY <1>2, <1>3, <1>4, <1>5, RowsAreNotNone

LEMMA RecordKeeps ==
  ASSUME ServerFacts, NEW ok \in BOOLEAN, NEW h \in TxHashes, Server!Record(Tx(ok), h)
  PROVE  ServerKeeps
<1>1. chain[h] = None /\ chain' = [chain EXCEPT ![h] = Tx(ok)] /\ intents' = intents
  BY DEF Server!Record
<1>2. Tx(ok) \in {Tx(TRUE), Tx(FALSE)}
  BY DEF Tx
<1>3. chain' \in Ledger /\ \A g \in TxHashes : chain[g] # None => chain'[g] = chain[g]
  BY <1>1, <1>2 DEF ServerFacts, Ledger
<1> QED  BY <1>1, <1>3 DEF ServerFacts, ServerKeeps, ConfirmedInBlock, Status

LEMMA ConfirmsKeeps ==
  ASSUME ServerFacts, NEW i \in IntentIds, NEW h \in TxHashes \cup {None}, Confirms(i, h)
  PROVE  ServerKeeps /\ intents'[i] # None /\ Status(i)' = "confirmed"
BY SettleKeeps DEF Confirms, Status

LEMMA ConfirmFailsKeeps ==
  ASSUME ServerFacts, NEW i \in IntentIds, NEW h \in TxHashes \cup {None}, ConfirmFails(i, h)
  PROVE  ServerKeeps
<1>1. {i} \in SUBSET IntentIds
  OBVIOUS
<1> QED  BY <1>1, SettleKeeps, LapseKeeps, IdleKeeps DEF ConfirmFails

-----------------------------------------------------------------------------
(* Steps of the client.                                                    *)
Phases == {"entry", "creating", "review", "wallet", "phone-approve", "polling",
           "success", "error", "blocked", "resume"}

PhoneStates == [pc : {"none", "ready", "poll", "done"}, intent : IntentIds \cup {None},
                hash : TxHashes \cup {None}]

DialogOK ==
  /\ open \in BOOLEAN /\ lock \in BOOLEAN /\ called \in BOOLEAN
  /\ mounts \in 0 .. Mounts /\ (open => mounts >= 1)
  /\ phase \in Phases
  /\ review \in IntentIds \cup {None} /\ subject \in IntentIds \cup {None}

SurroundingsOK ==
  /\ late \subseteq {i \in IntentIds : intents[i] # None}
  /\ cancels \in 0 .. MaxCancels /\ phone \in PhoneStates /\ PhoneHasIntent

LEMMA FlowTypes ==
  ASSUME FlowInv
  PROVE  /\ DialogOK /\ SurroundingsOK /\ ServerFacts /\ tasks \subseteq TaskStates
         /\ device \in Devices /\ sent \in [TxHashes -> Sendings \cup {None}]
         /\ record \in Records \cup {None}
BY ServerFactsHold DEF FlowInv, TypeOK, DialogOK, SurroundingsOK, OpenIsCounted, PhoneStates, Phases

LEMMA TypeFrom ==
  ASSUME ServerKeeps, DialogOK', SurroundingsOK', (tasks \subseteq TaskStates)',
         device' \in Devices, sent' \in [TxHashes -> Sendings \cup {None}],
         record' \in Records \cup {None}, phase' = "review" => review' # None
  PROVE  TypeOK' /\ OpenIsCounted' /\ PhoneHasIntent'
BY DEF TypeOK, OpenIsCounted, DialogOK, SurroundingsOK, ServerKeeps, Book, Ledger, PhoneStates, Phases

LEMMA SurroundingsStay ==
  ASSUME FlowInv, ServerKeeps, UNCHANGED <<late, cancels, phone>>
  PROVE  SurroundingsOK'
BY FlowTypes DEF SurroundingsOK, ServerKeeps, PhoneStates, PhoneHasIntent

(* A row stays.                                                            *)
LEMMA RowsStay ==
  ASSUME ServerKeeps, NEW i, HasRow(i)
  PROVE  HasRow(i)'
BY DEF ServerKeeps, HasRow

(* A step that sends nothing, asks the wallet for nothing, shows no new    *)
(* review and writes no record, and that shows a success only of what is   *)
(* confirmed.                                                              *)
LEMMA FlowStep ==
  ASSUME FlowInv, ServerKeeps, UNCHANGED <<device, sent>>,
         DialogOK', SurroundingsOK', tasks' \subseteq TaskStates,
         record' = record \/ record' = None,
         \A t \in tasks' : t.kind \in Concerns => HasRow(t.intent),
         \A t \in tasks' : t.kind \in {"wallet", "returned"} => t \in tasks,
         phase' = "review" => phase = "review" /\ review' = review,
         open' /\ phase' = "success" =>
           \/ open /\ phase = "success" /\ subject' = subject
           \/ subject' \in IntentIds /\ intents'[subject'] # None /\ Status(subject)' = "confirmed"
  PROVE  FlowInv'
<1>1. TypeOK' /\ OpenIsCounted' /\ PhoneHasIntent'
  <2>1. (tasks \subseteq TaskStates)'
    BY DEF TaskStates, Mounts
  <2>2. phase' = "review" => review' # None
    BY DEF FlowInv, TypeOK
  <2> QED  BY <2>1, <2>2, FlowTypes, TypeFrom
<1>2. ConfirmedInBlock'
  BY DEF ServerKeeps
<1>3. open' /\ phase' = "success" =>
        /\ HasRow(subject)' /\ Status(subject)' = "confirmed" /\ subject' # None
        /\ (chain[intents[subject].txHash] # None)'
  <2>1. SUFFICES ASSUME open', phase' = "success"
                 PROVE  HasRow(subject)' /\ Status(subject)' = "confirmed" /\ subject' # None
    BY <1>2 DEF HasRow, ConfirmedInBlock
  <2>2. CASE open /\ phase = "success" /\ subject' = subject
    <3>1. HasRow(subject) /\ Status(subject) = "confirmed" /\ subject # None
      BY <2>2 DEF FlowInv, SuccessIsConfirmed, RowsExist
    <3> QED  BY <2>2, <3>1 DEF ServerKeeps, HasRow, Status
  <2>3. CASE subject' \in IntentIds /\ intents'[subject'] # None /\ Status(subject)' = "confirmed"
    BY <2>3, RowsAreNotNone DEF HasRow
  <2> QED  BY <2>1, <2>2, <2>3
<1>4. RowsExist'
  <2>1. \A t \in tasks' : t.kind \in Concerns => HasRow(t.intent)'
    BY RowsStay
  <2>2. \A i \in IntentIds, h \in TxHashes : ByTab(i, h)' => HasRow(i)'
    BY RowsStay DEF FlowInv, RowsExist, ByTab
  <2>3. phase' = "review" => HasRow(review)'
    BY RowsStay DEF FlowInv, RowsExist, HasRow
  <2> QED  BY <1>3, <2>1, <2>2, <2>3 DEF RowsExist
<1>5. ReviewIsNew'
  BY DEF FlowInv, ReviewIsNew, ByTab
<1>6. WalletAskedOnce' /\ ReturnedWasSent'
  BY DEF FlowInv, WalletAskedOnce, ReturnedWasSent, WasSent, ByTab
<1>7. SuccessIsConfirmed'
  BY <1>3 DEF SuccessIsConfirmed
<1>8. OneTransactionPerReview' /\ RecordWasSent'
  BY DEF FlowInv, OneTransactionPerReview, RecordWasSent
<1> QED  BY <1>1, <1>2, <1>4, <1>5, <1>6, <1>7, <1>8 DEF FlowInv

LEMMA AbortedIs ==
  ASSUME FlowInv
  PROVE  /\ Aborted \subseteq TaskStates
         /\ \A t \in Aborted : t.kind \in Concerns => HasRow(t.intent)
         /\ \A t \in Aborted : t.kind \in {"wallet", "returned"} => t \in tasks
<1> SUFFICES ASSUME NEW t \in Aborted
             PROVE  /\ t \in TaskStates
                    /\ t.kind \in Concerns => HasRow(t.intent)
                    /\ t.kind \in {"wallet", "returned"} => t \in tasks
  OBVIOUS
<1>1. PICK u \in tasks : t = IF u.of = mounts /\ u.kind \in Loops THEN [u EXCEPT !.dead = TRUE] ELSE u
  BY DEF Aborted
<1>2. u \in TaskStates /\ (u.kind \in Concerns => HasRow(u.intent))
  BY FlowTypes DEF FlowInv, RowsExist
<1>3. CASE u.kind \in Loops /\ t = [u EXCEPT !.dead = TRUE]
  <2>1. t \in TaskStates /\ t.kind = u.kind /\ t.intent = u.intent
    BY <1>2, <1>3 DEF TaskStates
  <2> QED  BY <1>2, <1>3, <2>1 DEF Loops
<1>4. CASE t = u
  BY <1>2, <1>4
<1> QED  BY <1>1, <1>3, <1>4

(* The tasks that are there already.                                       *)
LEMMA TasksAre ==
  ASSUME FlowInv, NEW t \in tasks
  PROVE  /\ t \in TaskStates
         /\ t.intent \in IntentIds \cup {None} /\ t.hash \in TxHashes \cup {None}
         /\ t.kind \in Concerns => t.intent \in IntentIds /\ intents[t.intent] # None
BY FlowTypes DEF FlowInv, RowsExist, TaskStates, HasRow

(* A task of the dialog that is open.                                      *)
LEMMA NewTaskIs ==
  ASSUME FlowInv, open, NEW i \in IntentIds \cup {None}, NEW h \in TxHashes \cup {None},
         NEW kind \in {"create", "insert", "clear", "wallet", "returned"} \cup Loops
  PROVE  /\ Task(kind, i, h) \in TaskStates /\ Task(kind, i, h).kind = kind
         /\ Task(kind, i, h).intent = i /\ Task(kind, i, h).hash = h
<1>1. mounts \in 1 .. Mounts
  BY FlowTypes DEF DialogOK, Mounts
<1> QED  BY <1>1 DEF Task, TaskStates

(* A task that ends shows its phase in its own dialog only.                *)
LEMMA EndsWithIs ==
  ASSUME FlowInv, NEW t \in tasks, NEW p \in Phases, EndsWith(t, p)
  PROVE  /\ tasks' = tasks \ {t} /\ tasks' \subseteq TaskStates
         /\ \A u \in tasks' : u.kind \in Concerns => HasRow(u.intent)
         /\ phase' = IF Here(t) THEN p ELSE phase
         /\ phase' \in Phases /\ lock' \in BOOLEAN
BY FlowTypes DEF EndsWith, DialogOK, FlowInv, RowsExist

-----------------------------------------------------------------------------
(* The buttons of the dialog.                                              *)

LEMMA OpenStep ==
  ASSUME FlowInv, NEW matches \in BOOLEAN, Open(matches)
  PROVE  FlowInv'
<1> DEFINE t == [Task("resume", record.intent, record.hash) EXCEPT !.of = mounts + 1]
<1>1. /\ ~open /\ mounts < Mounts /\ open' /\ mounts' = mounts + 1
      /\ open' = TRUE /\ lock' = FALSE /\ called' = FALSE /\ review' = None /\ subject' = None
      /\ UNCHANGED <<device, chain, intents, late, sent, cancels, phone>>
      /\ record' = record \/ record' = None
      /\ \/ record' # None /\ phase' = "resume" /\ tasks' = tasks \cup {t}
         \/ phase' = "entry" /\ tasks' = tasks
  BY DEF Open, server
<1>2. ServerKeeps
  BY <1>1, IdleKeeps, FlowTypes
<1>3. mounts + 1 \in 1 .. Mounts /\ Mounts' = Mounts
  <2>1. Mounts \in Nat
    BY FlowAssumption DEF FlowAssumption, Mounts
  <2>2. mounts \in 0 .. Mounts
    BY FlowTypes DEF DialogOK
  <2>3. Mounts' = Mounts
    BY <1>1 DEF Mounts
  <2> QED  BY <1>1, <2>1, <2>2, <2>3
<1>4. ASSUME record # None
      PROVE  t \in TaskStates /\ t.kind = "resume" /\ t.intent = record.intent /\ HasRow(record.intent)
  <2>1. record \in Records
    BY <1>4, FlowTypes
  <2>2. t \in TaskStates /\ t.kind = "resume" /\ t.intent = record.intent
    BY <1>3, <2>1 DEF Task, TaskStates, Loops, Records
  <2>3. PICK h \in TxHashes : sent[h] = [intent |-> record.intent, by |-> "tab"]
    BY <1>4 DEF FlowInv, RecordWasSent
  <2>4. HasRow(record.intent)
    BY <2>1, <2>3 DEF FlowInv, RowsExist, ByTab, Records
  <2> QED  BY <2>2, <2>4
<1> HIDE DEF t
<1>5. /\ tasks' \subseteq TaskStates
      /\ \A u \in tasks' : u.kind \in Concerns => HasRow(u.intent)
      /\ \A u \in tasks' : u.kind \in {"wallet", "returned"} => u \in tasks
  BY <1>1, <1>4, FlowTypes DEF FlowInv, RowsExist
<1>6. DialogOK'
  <2>1. mounts' \in 0 .. Mounts' /\ mounts' >= 1
    BY <1>1, <1>3
  <2>2. review' \in IntentIds \cup {None} /\ subject' \in IntentIds \cup {None} /\ phase' \in Phases
    BY <1>1 DEF Phases
  <2> QED  BY <1>1, <2>1, <2>2 DEF DialogOK, Phases
<1>7. SurroundingsOK'
  BY <1>1, <1>2, SurroundingsStay
<1> QED  BY <1>1, <1>2, <1>5, <1>6, <1>7, FlowStep

LEMMA LeaveStep ==
  ASSUME FlowInv, Close \/ Unmount \/ Reload
  PROVE  FlowInv'
<1>1. /\ open' = FALSE /\ phase' = "entry" /\ review' = None /\ lock' = FALSE
      /\ called' = FALSE /\ subject' = None /\ mounts' = mounts
      /\ UNCHANGED <<device, chain, intents, late, sent, phone>>
      /\ record' = record \/ record' = None
      /\ cancels' = cancels \/ (cancels < MaxCancels /\ cancels' = cancels + 1)
      /\ tasks' = Aborted \/ tasks' = {}
  BY DEF Close, Unmount, Reload, Leave, Abandon, server
<1>2. ServerKeeps
  BY <1>1, IdleKeeps, FlowTypes
<1>3. /\ tasks' \subseteq TaskStates
      /\ \A u \in tasks' : u.kind \in Concerns => HasRow(u.intent)
      /\ \A u \in tasks' : u.kind \in {"wallet", "returned"} => u \in tasks
  BY <1>1, AbortedIs
<1>4. DialogOK'
  BY <1>1, FlowTypes DEF DialogOK, Mounts, Phases
<1>5. SurroundingsOK'
  BY <1>1, FlowTypes, FlowAssumption DEF SurroundingsOK, FlowAssumption, PhoneStates, PhoneHasIntent
<1> QED  BY <1>1, <1>2, <1>3, <1>4, <1>5, FlowStep

(* The buttons that start no task, or one that is about no intent.         *)
LEMMA ButtonStep ==
  ASSUME FlowInv,
         Continue \/ ContinueRefused \/ CancelReview \/ TryAgain \/ ClearPending
  PROVE  FlowInv'
<1>1. /\ UNCHANGED <<device, chain, intents, late, sent, open, mounts, subject, phone>>
      /\ open /\ phase' \in Phases \ {"review", "success"}
      /\ lock' \in {lock, TRUE} /\ called' \in {called, FALSE} /\ review' \in {review, None}
      /\ record' = record \/ record' = None
      /\ cancels' = cancels \/ (cancels < MaxCancels /\ cancels' = cancels + 1)
      /\ \/ tasks' = tasks \/ tasks' = Aborted
         \/ tasks' = tasks \cup {Task("create", None, None)}
         \/ tasks' = tasks \cup {Task("clear", None, None)}
  <2>1. CASE Continue
    BY <2>1 DEF Continue, Phases, server
  <2>2. CASE ContinueRefused
    BY <2>2 DEF ContinueRefused, Phases, server
  <2>3. CASE CancelReview
    BY <2>3 DEF CancelReview, Abandon, Phases, server
  <2>4. CASE TryAgain
    BY <2>4 DEF TryAgain, Phases, server
  <2>5. CASE ClearPending
    BY <2>5 DEF ClearPending, Phases, server, FlowInv, TypeOK
  <2> QED  BY <2>1, <2>2, <2>3, <2>4, <2>5
<1>2. ServerKeeps
  BY <1>1, IdleKeeps, FlowTypes
<1>3. /\ tasks' \subseteq TaskStates
      /\ \A u \in tasks' : u.kind \in Concerns => HasRow(u.intent)
      /\ \A u \in tasks' : u.kind \in {"wallet", "returned"} => u \in tasks
  <2>1. \A kind \in {"create", "clear"} :
          Task(kind, None, None) \in TaskStates /\ Task(kind, None, None).kind = kind
          /\ kind \notin Concerns
    BY <1>1, NewTaskIs DEF Concerns, Loops
  <2>2. tasks \subseteq TaskStates /\ \A u \in tasks : u.kind \in Concerns => HasRow(u.intent)
    BY FlowTypes DEF FlowInv, RowsExist
  <2> QED  BY <1>1, <2>1, <2>2, AbortedIs
<1>4. DialogOK'
  BY <1>1, FlowTypes DEF DialogOK, Mounts
<1>5. SurroundingsOK'
  BY <1>1, FlowTypes, FlowAssumption DEF SurroundingsOK, FlowAssumption, PhoneStates, PhoneHasIntent
<1> QED  BY <1>1, <1>2, <1>3, <1>4, <1>5, FlowStep

(* handleReviewConfirm: what is under review has not been sent, so the     *)
(* wallet is asked for it for the first time.                              *)
LEMMA ReviewConfirmStep ==
  ASSUME FlowInv, ReviewConfirm
  PROVE  FlowInv'
<1>1. /\ UNCHANGED <<device, chain, intents, late, sent, record, open, mounts, review,
                     subject, cancels, phone>>
      /\ open /\ phase = "review" /\ review # None
      /\ \/ /\ phase' = "wallet" /\ lock' = TRUE /\ called' = TRUE
            /\ tasks' = tasks \cup {Task("wallet", review, None)}
         \/ /\ phase' = "phone-approve" /\ UNCHANGED <<lock, called>>
            /\ tasks' = tasks \cup {Task("phone", review, None)}
  BY DEF ReviewConfirm, server
<1>2. ServerKeeps
  BY <1>1, IdleKeeps, FlowTypes
<1>3. HasRow(review) /\ review \in IntentIds
  BY <1>1 DEF FlowInv, RowsExist, HasRow
<1>4. ASSUME NEW kind \in {"wallet", "phone"}
      PROVE  /\ Task(kind, review, None) \in TaskStates /\ Task(kind, review, None).kind = kind
             /\ Task(kind, review, None).intent = review
  BY <1>1, <1>3, NewTaskIs DEF Loops
<1>5. tasks \subseteq TaskStates /\ \A u \in tasks : u.kind \in Concerns => HasRow(u.intent)
  BY FlowTypes DEF FlowInv, RowsExist
<1>6. /\ tasks' \subseteq TaskStates
      /\ \A u \in tasks' : u.kind \in Concerns => HasRow(u.intent)
  BY <1>1, <1>3, <1>4, <1>5
<1>7. DialogOK'
  BY <1>1, FlowTypes DEF DialogOK, Mounts, Phases
<1>8. SurroundingsOK'
  BY <1>1, <1>2, SurroundingsStay
<1>9. CASE tasks' = tasks \cup {Task("phone", review, None)} /\ phase' = "phone-approve"
  <2>1. \A u \in tasks' : u.kind \in {"wallet", "returned"} => u \in tasks
    BY <1>4, <1>9
  <2> QED  BY <1>1, <1>2, <1>6, <1>7, <1>8, <1>9, <2>1, FlowStep
<1>10. CASE tasks' = tasks \cup {Task("wallet", review, None)} /\ phase' = "wallet"
  <2> DEFINE t == Task("wallet", review, None)
  <2>1. t.kind = "wallet" /\ t.intent = review /\ tasks' = tasks \cup {t}
    BY <1>4, <1>10
  <2> HIDE DEF t
  <2>2. TypeOK' /\ OpenIsCounted' /\ PhoneHasIntent'
    <3>1. (tasks \subseteq TaskStates)'
      BY <1>1, <1>6 DEF TaskStates, Mounts
    <3> QED  BY <1>1, <1>2, <1>7, <1>8, <1>10, <3>1, FlowTypes, TypeFrom
  <2>3. RowsExist'
    BY <1>1, <1>6, <1>10 DEF FlowInv, RowsExist, HasRow, ByTab
  <2>4. ConfirmedInBlock' /\ ReviewIsNew' /\ SuccessIsConfirmed'
    BY <1>2, <1>10 DEF ServerKeeps, ReviewIsNew, SuccessIsConfirmed
  <2>5. WalletAskedOnce'
    <3>1. /\ \A h \in TxHashes : ~ByTab(review, h)
          /\ \A u \in tasks : u.kind = "wallet" => u.intent # review
      BY <1>1 DEF FlowInv, ReviewIsNew
    <3>2. \A u \in tasks', h \in TxHashes : u.kind = "wallet" => ~ByTab(u.intent, h)'
      BY <1>1, <2>1, <3>1 DEF FlowInv, WalletAskedOnce, ByTab
    <3>3. \A u, v \in tasks' : u.kind = "wallet" /\ v.kind = "wallet" /\ u.intent = v.intent => u = v
      BY <2>1, <3>1 DEF FlowInv, WalletAskedOnce
    <3> QED  BY <3>2, <3>3 DEF WalletAskedOnce
  <2>6. ReturnedWasSent'
    BY <1>1, <2>1 DEF FlowInv, ReturnedWasSent, WasSent, ByTab
  <2>7. OneTransactionPerReview' /\ RecordWasSent'
    BY <1>1 DEF FlowInv, OneTransactionPerReview, RecordWasSent
  <2> QED  BY <2>2, <2>3, <2>4, <2>5, <2>6, <2>7 DEF FlowInv
<1> QED  BY <1>1, <1>9, <1>10

-----------------------------------------------------------------------------
(* The tasks.                                                              *)

(* A task ends.                                                            *)
LEMMA EndStep ==
  ASSUME FlowInv, ServerKeeps, NEW t \in tasks, NEW p \in Phases \ {"review"},
         UNCHANGED <<device, late, sent, open, mounts, phone>>,
         tasks' = tasks \ {t}, phase' \in {p, phase},
         record' \in {record, None}, lock' \in {lock, FALSE}, called' \in {called, FALSE},
         review' \in {review, None}, phase' = "review" => review' = review,
         subject' \in IntentIds \cup {None},
         cancels' \in 0 .. MaxCancels,
         open /\ phase' = "success" =>
           \/ phase = "success" /\ subject' = subject
           \/ subject' \in IntentIds /\ intents'[subject'] # None /\ Status(subject)' = "confirmed"
  PROVE  FlowInv'
<1>1. /\ tasks' \subseteq TaskStates
      /\ \A u \in tasks' : u.kind \in Concerns => HasRow(u.intent)
      /\ \A u \in tasks' : u.kind \in {"wallet", "returned"} => u \in tasks
  BY FlowTypes DEF FlowInv, RowsExist
<1>2. DialogOK'
  BY FlowTypes DEF DialogOK, Mounts
<1>3. SurroundingsOK'
  BY FlowTypes DEF SurroundingsOK, ServerKeeps, PhoneStates, PhoneHasIntent
<1>4. phase' = "review" => phase = "review"
  OBVIOUS
<1> QED  BY <1>1, <1>2, <1>3, <1>4, FlowStep

LEMMA AbandonIs ==
  ASSUME FlowInv, Abandon
  PROVE  record' = None /\ cancels' \in 0 .. MaxCancels
BY FlowTypes, FlowAssumption DEF Abandon, SurroundingsOK, FlowAssumption

LEMMA CancelsStay ==
  ASSUME FlowInv
  PROVE  cancels \in 0 .. MaxCancels /\ subject \in IntentIds \cup {None} /\ lock \in BOOLEAN
         /\ Pending \in SUBSET IntentIds
BY FlowTypes DEF SurroundingsOK, DialogOK, Pending

LEMMA CreateArrivesStep ==
  ASSUME FlowInv, NEW t \in tasks, CreateArrives(t)
  PROVE  FlowInv'
<1>1. /\ tasks' = (tasks \ {t}) \cup {[t EXCEPT !.kind = "insert"]}
      /\ UNCHANGED <<device, late, sent, record, open, mounts, phase, review, lock, called,
                     subject, cancels, phone>>
  BY DEF CreateArrives, dialog
<1>2. ServerKeeps
  BY LapseKeeps, CancelsStay, FlowTypes DEF CreateArrives
<1>3. /\ tasks' \subseteq TaskStates
      /\ \A u \in tasks' : u.kind \in Concerns => HasRow(u.intent)
      /\ \A u \in tasks' : u.kind \in {"wallet", "returned"} => u \in tasks
  <2>1. [t EXCEPT !.kind = "insert"] \in TaskStates /\ [t EXCEPT !.kind = "insert"].kind = "insert"
    BY TasksAre DEF TaskStates
  <2>2. tasks \subseteq TaskStates /\ \A u \in tasks : u.kind \in Concerns => HasRow(u.intent)
    BY FlowTypes DEF FlowInv, RowsExist
  <2>3. "insert" \notin Concerns
    BY DEF Concerns, Loops
  <2> QED  BY <1>1, <2>1, <2>2, <2>3
<1>4. DialogOK'
  BY <1>1, FlowTypes DEF DialogOK, Mounts
<1>5. SurroundingsOK'
  BY <1>1, <1>2, SurroundingsStay
<1>6. open' /\ phase' = "success" => open /\ phase = "success" /\ subject' = subject
  BY <1>1
<1> QED  BY <1>1, <1>2, <1>3, <1>4, <1>5, <1>6, FlowStep

(* Create, clear, a refusal of the wallet and a poll may end in vain.      *)
LEMMA FailStep ==
  ASSUME FlowInv, NEW t \in tasks,
         \/ CreateFails(t) \/ Cleared(t) \/ WalletRefuses(t) \/ PollFails(t) \/ PollTimesOut(t)
  PROVE  FlowInv'
<1>1. PICK p \in {"entry", "error"} :
        /\ EndsWith(t, p)
        /\ UNCHANGED <<device, late, sent, open, mounts, subject, phone>>
        /\ record' \in {record, None} /\ called' \in {called, FALSE}
        /\ review' = IF p = "entry" /\ Here(t) THEN None ELSE review
        /\ cancels' \in 0 .. MaxCancels
  <2>1. CASE CreateFails(t)
    BY <2>1, CancelsStay DEF CreateFails
  <2>2. CASE Cleared(t)
    BY <2>2, CancelsStay DEF Cleared
  <2>3. CASE WalletRefuses(t)
    BY <2>3, AbandonIs DEF WalletRefuses, server
  <2>4. CASE PollFails(t)
    BY <2>4, CancelsStay DEF PollFails
  <2>5. CASE PollTimesOut(t)
    BY <2>5, CancelsStay DEF PollTimesOut, server
  <2> QED  BY <2>1, <2>2, <2>3, <2>4, <2>5
<1>2. ServerKeeps
  <2>1. CASE CreateFails(t)
    BY <2>1, OpenKeeps, IdleKeeps, FlowTypes DEF CreateFails
  <2>2. CASE Cleared(t)
    BY <2>2, LapseKeeps, IdleKeeps, FlowTypes, CancelsStay DEF Cleared
  <2>3. CASE WalletRefuses(t) \/ PollTimesOut(t)
    BY <2>3, IdleKeeps, FlowTypes DEF WalletRefuses, PollTimesOut, server
  <2>4. CASE PollFails(t)
    BY <2>4, ConfirmFailsKeeps, FlowTypes, TasksAre DEF PollFails, Concerns, Loops
  <2> QED  BY <2>1, <2>2, <2>3, <2>4
<1>3. p \in Phases \ {"review"} /\ p \in Phases /\ p # "success"
  BY DEF Phases
<1>4. /\ tasks' = tasks \ {t}
      /\ phase' = IF Here(t) THEN p ELSE phase
      /\ lock' \in {lock, FALSE}
  BY <1>1 DEF EndsWith
<1>5. phase' = "review" => review' = review
  BY <1>1, <1>3, <1>4
<1>6. open /\ phase' = "success" => phase = "success" /\ subject' = subject
  BY <1>1, <1>3, <1>4
<1>7. subject' \in IntentIds \cup {None}
  BY <1>1, CancelsStay
<1> QED  BY <1>1, <1>2, <1>3, <1>4, <1>5, <1>6, <1>7, EndStep

(* A poll shows a success after the server has confirmed.                  *)
LEMMA PollConfirmedStep ==
  ASSUME FlowInv, NEW t \in tasks, PollConfirmed(t)
  PROVE  FlowInv'
<1>1. /\ UNCHANGED <<device, late, sent, open, mounts, review, called, cancels, phone>>
      /\ record' = None /\ tasks' = tasks \ {t}
      /\ phase' = IF Here(t) THEN "success" ELSE phase
      /\ subject' = IF Here(t) THEN t.intent ELSE subject
      /\ lock' \in {lock, FALSE}
  BY DEF PollConfirmed, EndsWith
<1>2. t.intent \in IntentIds /\ t.hash \in TxHashes \cup {None}
  BY TasksAre DEF PollConfirmed, Concerns, Loops
<1>3. ServerKeeps /\ intents'[t.intent] # None /\ Status(t.intent)' = "confirmed"
  <2>1. Confirms(t.intent, t.hash) /\ ServerFacts
    BY FlowTypes DEF PollConfirmed
  <2>2. ServerKeeps /\ intents'[t.intent] # None /\ intents'[t.intent].status = "confirmed"
    BY <1>2, <2>1, ConfirmsKeeps DEF Status
  <2>3. t' = t
    OBVIOUS
  <2> QED  BY <2>2, <2>3 DEF Status
<1>4. subject' \in IntentIds \cup {None} /\ cancels' \in 0 .. MaxCancels
  BY <1>1, <1>2, CancelsStay
<1>5. open /\ phase' = "success" =>
        \/ phase = "success" /\ subject' = subject
        \/ subject' \in IntentIds /\ intents'[subject'] # None /\ Status(subject)' = "confirmed"
  BY <1>1, <1>2, <1>3 DEF Status
<1>6. "success" \in Phases \ {"review"}
  BY DEF Phases
<1> QED  BY <1>1, <1>3, <1>4, <1>5, <1>6, EndStep

(* The desktop's loop ends, and shows a success when it read that the row  *)
(* is confirmed.                                                           *)
LEMMA LoopEndStep ==
  ASSUME FlowInv, NEW t \in tasks, LoopAborted(t) \/ PhoneLoopConfirmed(t) \/ PhoneLoopEnds(t)
  PROVE  FlowInv'
<1>1. /\ UNCHANGED <<device, late, sent, record, open, mounts, review, lock, called, cancels, phone>>
      /\ tasks' = tasks \ {t}
  BY DEF LoopAborted, PhoneLoopConfirmed, PhoneLoopEnds, dialog, server
<1>2. cancels' \in 0 .. MaxCancels
  BY <1>1, CancelsStay
<1>3. {"success", "error"} \subseteq Phases \ {"review"}
  BY DEF Phases
<1>4. CASE LoopAborted(t)
  <2>1. ServerKeeps /\ phase' = phase /\ subject' = subject
    BY <1>4, IdleKeeps, FlowTypes DEF LoopAborted, dialog, server
  <2> QED  BY <1>1, <1>2, <1>3, <2>1, EndStep, CancelsStay
<1>5. CASE PhoneLoopConfirmed(t)
  <2>1. /\ t.kind = "phone" /\ Status(t.intent) = "confirmed"
        /\ UNCHANGED <<chain, intents>>
        /\ IF Here(t) THEN phase' = "success" /\ subject' = t.intent
                      ELSE phase' = phase /\ subject' = subject
    BY <1>5 DEF PhoneLoopConfirmed, server
  <2>2. ServerKeeps
    BY <2>1, IdleKeeps, FlowTypes
  <2>3. t.intent \in IntentIds /\ intents[t.intent] # None
    BY <2>1, TasksAre DEF Concerns, Loops
  <2>4. subject' \in IntentIds \cup {None}
    BY <2>1, <2>3, CancelsStay
  <2>5. open /\ phase' = "success" =>
          \/ phase = "success" /\ subject' = subject
          \/ subject' \in IntentIds /\ intents'[subject'] # None /\ Status(subject)' = "confirmed"
    BY <2>1, <2>3 DEF Status
  <2>6. phase' \in {"success", phase}
    BY <2>1
  <2> QED  BY <1>1, <1>2, <1>3, <2>2, <2>4, <2>5, <2>6, EndStep
<1>6. CASE PhoneLoopEnds(t)
  <2>1. t.kind = "phone" /\ subject' = subject /\ phase' \in {"error", phase}
    BY <1>6 DEF PhoneLoopEnds
  <2>2. t.intent \in IntentIds /\ {t.intent} \in SUBSET IntentIds
    BY <2>1, TasksAre DEF Concerns, Loops
  <2>3. ServerKeeps
    BY <1>6, <2>2, IdleKeeps, LapseKeeps, FlowTypes DEF PhoneLoopEnds
  <2>4. subject' \in IntentIds \cup {None}
    BY <2>1, CancelsStay
  <2> QED  BY <1>1, <1>2, <1>3, <2>1, <2>3, <2>4, EndStep
<1> QED  BY <1>4, <1>5, <1>6

(* A review is shown of a row that has just been inserted, so nothing of   *)
(* it was sent before.                                                     *)
LEMMA CreateAnswersStep ==
  ASSUME FlowInv, NEW t \in tasks, NEW i \in IntentIds, CreateAnswers(t, i)
  PROVE  FlowInv'
<1>1. /\ UNCHANGED <<device, late, sent, record, open, mounts, called, subject, cancels, phone>>
      /\ tasks' = tasks \ {t}
      /\ phase' = IF Here(t) THEN "review" ELSE phase
      /\ review' = IF Here(t) THEN i ELSE review
      /\ lock' \in {lock, FALSE}
  BY DEF CreateAnswers, EndsWith
<1>2. ServerKeeps /\ intents[i] = None /\ intents'[i] # None
  BY OpenKeeps, FlowTypes DEF CreateAnswers
<1>3. CASE ~Here(t)
  <2>1. review' \in {review, None} /\ cancels' \in 0 .. MaxCancels /\ subject' \in IntentIds \cup {None}
    BY <1>1, <1>3, CancelsStay
  <2>2. "error" \in Phases \ {"review"}
    BY DEF Phases
  <2> QED  BY <1>1, <1>2, <1>3, <2>1, <2>2, EndStep
<1>4. CASE Here(t)
  <2>1. phase' = "review" /\ review' = i /\ i # None
    BY <1>1, <1>4, RowsAreNotNone
  <2>2. TypeOK' /\ OpenIsCounted' /\ PhoneHasIntent'
    <3>1. DialogOK'
      BY <1>1, <2>1, FlowTypes DEF DialogOK, Mounts, Phases
    <3>2. SurroundingsOK'
      BY <1>1, <1>2, SurroundingsStay
    <3>3. (tasks \subseteq TaskStates)'
      BY <1>1, FlowTypes DEF TaskStates, Mounts
    <3> QED  BY <1>1, <1>2, <2>1, <3>1, <3>2, <3>3, FlowTypes, TypeFrom
  <2>3. RowsExist'
    <3>1. \A u \in tasks' : u.kind \in Concerns => HasRow(u.intent)'
      BY <1>1, <1>2, RowsStay DEF FlowInv, RowsExist
    <3>2. \A j \in IntentIds, h \in TxHashes : ByTab(j, h)' => HasRow(j)'
      BY <1>1, <1>2, RowsStay DEF FlowInv, RowsExist, ByTab
    <3>3. HasRow(review)'
      BY <1>2, <2>1 DEF HasRow
    <3> QED  BY <2>1, <3>1, <3>2, <3>3 DEF RowsExist
  <2>4. ReviewIsNew'
    <3>1. \A h \in TxHashes : ~ByTab(i, h)
      BY <1>2 DEF FlowInv, RowsExist, HasRow
    <3>2. \A u \in tasks : u.kind = "wallet" => u.intent # i
      BY <1>2 DEF FlowInv, RowsExist, HasRow, Concerns
    <3> QED  BY <1>1, <2>1, <3>1, <3>2 DEF ReviewIsNew, ByTab
  <2>5. WalletAskedOnce' /\ ReturnedWasSent'
    BY <1>1 DEF FlowInv, WalletAskedOnce, ReturnedWasSent, WasSent, ByTab
  <2>6. SuccessIsConfirmed' /\ ConfirmedInBlock'
    BY <1>2, <2>1 DEF SuccessIsConfirmed, ServerKeeps
  <2>7. OneTransactionPerReview' /\ RecordWasSent'
    BY <1>1 DEF FlowInv, OneTransactionPerReview, RecordWasSent
  <2> QED  BY <2>2, <2>3, <2>4, <2>5, <2>6, <2>7 DEF FlowInv
<1> QED  BY <1>3, <1>4

(* A hash is drawn once: what was sent before stays as it is.              *)
LEMMA SendsIs ==
  ASSUME FlowInv, NEW i \in IntentIds, NEW h \in TxHashes, NEW by \in {"tab", "phone"},
         Sends(i, h, by)
  PROVE  /\ sent' \in [TxHashes -> Sendings \cup {None}]
         /\ sent[h] = None /\ sent'[h] = [intent |-> i, by |-> by]
         /\ \A g \in TxHashes : g # h => sent'[g] = sent[g]
         /\ \A j \in IntentIds, g \in TxHashes : ByTab(j, g) => g # h /\ ByTab(j, g)'
<1> DEFINE sending == [intent |-> i, by |-> by]
<1>1. sending \in Sendings /\ sending.intent = i /\ sending.by = by
  BY DEF Sendings
<1>2. sent' = [sent EXCEPT ![h] = sending] /\ sent[h] = None
  BY DEF Sends, TxHashes
<1>3. /\ sent' \in [TxHashes -> Sendings \cup {None}] /\ sent'[h] = sending
      /\ \A g \in TxHashes : g # h => sent'[g] = sent[g]
  <2> HIDE DEF sending
  <2> QED  BY <1>1, <1>2, FlowTypes
<1>4. ASSUME NEW j \in IntentIds, NEW g \in TxHashes, ByTab(j, g)
      PROVE  g # h /\ ByTab(j, g)'
  <2>1. sent[g] # None
    <3>1. [intent |-> j, by |-> "tab"] \in Sendings
      BY DEF Sendings
    <3> QED  BY <1>4, <3>1, FlowAssumption DEF FlowAssumption, ByTab
  <2> QED  BY <1>2, <1>3, <1>4, <2>1 DEF ByTab
<1> QED  BY <1>2, <1>3, <1>4

(* What the tab has sent after it, it had sent before or sends now.        *)
LEMMA SentByTab ==
  ASSUME FlowInv, NEW i \in IntentIds, NEW h \in TxHashes, NEW by \in {"tab", "phone"},
         Sends(i, h, by), NEW j \in IntentIds, NEW g \in TxHashes, ByTab(j, g)'
  PROVE  ByTab(j, g) \/ (g = h /\ by = "tab" /\ j = i)
<1> DEFINE sending == [intent |-> i, by |-> by]
<1>1. sent' = [sent EXCEPT ![h] = sending]
  BY DEF Sends
<1>2. sent'[h] = sending /\ (g # h => sent'[g] = sent[g])
  <2> HIDE DEF sending
  <2> QED  BY <1>1, FlowTypes
<1>3. CASE g = h
  <2>1. sending = [intent |-> j, by |-> "tab"]
    BY <1>2, <1>3 DEF ByTab
  <2> QED  BY <1>3, <2>1
<1>4. CASE g # h
  BY <1>2, <1>4 DEF ByTab
<1> QED  BY <1>3, <1>4

(* The user approves: the one task that asked for the intent has now sent  *)
(* it.                                                                     *)
LEMMA WalletSendsStep ==
  ASSUME FlowInv, NEW t \in tasks, WalletSends(t)
  PROVE  FlowInv'
<1>1. PICK h \in TxHashes, hash \in TxHashes \cup {None} :
        /\ Sends(t.intent, h, "tab") /\ hash \in {h, None}
        /\ tasks' = (tasks \ {t}) \cup {[t EXCEPT !.kind = "returned", !.hash = hash]}
  BY DEF WalletSends
<1> DEFINE u == [t EXCEPT !.kind = "returned", !.hash = hash]
<1>2. /\ t.kind = "wallet"
      /\ UNCHANGED <<device, chain, intents, late, record, open, mounts, phase, review, lock,
                     called, subject, cancels, phone>>
  BY DEF WalletSends, dialog, server
<1>3. t \in TaskStates /\ t.intent \in IntentIds /\ HasRow(t.intent)
  BY <1>2, TasksAre DEF Concerns, HasRow
<1>4. u \in TaskStates /\ u.kind = "returned" /\ u.intent = t.intent /\ u.hash = hash
  BY <1>3 DEF TaskStates
<1>5. tasks' = (tasks \ {t}) \cup {u} /\ hash \in {h, None}
  BY <1>1
<1> HIDE DEF u
<1>6. /\ sent' \in [TxHashes -> Sendings \cup {None}]
      /\ sent[h] = None /\ sent'[h] = [intent |-> t.intent, by |-> "tab"]
      /\ \A g \in TxHashes : g # h => sent'[g] = sent[g]
      /\ \A j \in IntentIds, g \in TxHashes : ByTab(j, g) => g # h /\ ByTab(j, g)'
      /\ \A j \in IntentIds, g \in TxHashes :
           ByTab(j, g)' => ByTab(j, g) \/ (g = h /\ j = t.intent)
  <2>1. Sends(t.intent, h, "tab") /\ "tab" \in {"tab", "phone"}
    BY <1>1
  <2>2. \A j \in IntentIds, g \in TxHashes : ByTab(j, g) => g # h /\ ByTab(j, g)'
    BY <1>3, <2>1, SendsIs
  <2>3. \A j \in IntentIds, g \in TxHashes :
          ByTab(j, g)' => ByTab(j, g) \/ (g = h /\ j = t.intent)
    <3> SUFFICES ASSUME NEW j \in IntentIds, NEW g \in TxHashes, ByTab(j, g)'
                 PROVE  ByTab(j, g) \/ (g = h /\ j = t.intent)
      OBVIOUS
    <3> QED  BY <1>3, <2>1, SentByTab
  <2>4. /\ sent' \in [TxHashes -> Sendings \cup {None}]
        /\ sent[h] = None /\ sent'[h] = [intent |-> t.intent, by |-> "tab"]
        /\ \A g \in TxHashes : g # h => sent'[g] = sent[g]
    BY <1>3, <2>1, SendsIs
  <2> QED  BY <2>2, <2>3, <2>4
<1>7. ServerKeeps
  BY <1>2, IdleKeeps, FlowTypes
<1>8. \A v \in tasks : v.kind = "wallet" => v.intent \in IntentIds
  BY TasksAre DEF Concerns
<1>9. TypeOK' /\ OpenIsCounted' /\ PhoneHasIntent'
  <2>1. (tasks \subseteq TaskStates)'
    BY <1>2, <1>4, <1>5, FlowTypes DEF TaskStates, Mounts
  <2>2. DialogOK'
    BY <1>2, FlowTypes DEF DialogOK, Mounts
  <2>3. SurroundingsOK'
    BY <1>2, <1>7, SurroundingsStay
  <2>4. phase' = "review" => review' # None
    BY <1>2 DEF FlowInv, TypeOK
  <2> QED  BY <1>2, <1>6, <1>7, <2>1, <2>2, <2>3, <2>4, FlowTypes, TypeFrom
<1>10. RowsExist'
  <2>1. \A v \in tasks' : v.kind \in Concerns => HasRow(v.intent)'
    BY <1>2, <1>3, <1>4, <1>5 DEF FlowInv, RowsExist, HasRow
  <2>2. \A i \in IntentIds, g \in TxHashes : ByTab(i, g)' => HasRow(i)'
    BY <1>2, <1>3, <1>6 DEF FlowInv, RowsExist, HasRow
  <2> QED  BY <1>2, <2>1, <2>2 DEF FlowInv, RowsExist, HasRow
<1>11. ReviewIsNew'
  <2> SUFFICES ASSUME phase = "review"
               PROVE  /\ \A g \in TxHashes : ~ByTab(review, g)'
                      /\ \A v \in tasks' : v.kind = "wallet" => v.intent # review
    BY <1>2 DEF ReviewIsNew, ByTab
  <2>1. review \in IntentIds /\ review # t.intent
    BY <1>2 DEF FlowInv, ReviewIsNew, RowsExist, HasRow
  <2>2. \A g \in TxHashes : ~ByTab(review, g)'
    <3>1. \A g \in TxHashes : ~ByTab(review, g)
      BY DEF FlowInv, ReviewIsNew
    <3> QED  BY <1>2, <1>6, <2>1, <3>1 DEF ByTab
  <2>3. \A v \in tasks' : v.kind = "wallet" => v.intent # review
    BY <1>4, <1>5 DEF FlowInv, ReviewIsNew
  <2> QED  BY <2>2, <2>3
<1>12. WalletAskedOnce'
  <2>1. \A v, x \in tasks : v.kind = "wallet" /\ x.kind = "wallet" /\ v.intent = x.intent => v = x
    BY DEF FlowInv, WalletAskedOnce
  <2>2. \A v \in tasks' : v.kind = "wallet" => v \in tasks /\ v.intent # t.intent
    BY <1>2, <1>4, <1>5, <2>1
  <2>3. ASSUME NEW v \in tasks', NEW g \in TxHashes, v.kind = "wallet"
        PROVE  ~ByTab(v.intent, g)'
    <3>1. v \in tasks /\ v.intent # t.intent /\ v.intent \in IntentIds
      BY <1>8, <2>2, <2>3
    <3>2. ~ByTab(v.intent, g)
      BY <2>3, <3>1 DEF FlowInv, WalletAskedOnce
    <3> QED  BY <1>6, <3>1, <3>2
  <2>4. \A v \in tasks', g \in TxHashes : v.kind = "wallet" => ~ByTab(v.intent, g)'
    BY <2>3
  <2> QED  BY <2>1, <2>2, <2>4 DEF WalletAskedOnce, ByTab
<1>13. ReturnedWasSent'
  <2> SUFFICES ASSUME NEW v \in tasks', v.kind = "returned"
               PROVE  WasSent(v.intent, v.hash)'
    BY DEF ReturnedWasSent, WasSent, ByTab
  <2>1. CASE v = u
    BY <1>4, <1>5, <1>6, <2>1 DEF WasSent, ByTab
  <2>2. CASE v \in tasks
    <3>1. v.intent \in IntentIds /\ WasSent(v.intent, v.hash)
      BY <2>2, TasksAre DEF FlowInv, ReturnedWasSent, Concerns
    <3>2. PICK g \in TxHashes : v.hash \in {g, None} /\ ByTab(v.intent, g)
      BY <3>1 DEF WasSent
    <3>3. ByTab(v.intent, g)'
      BY <1>6, <3>1, <3>2
    <3> QED  BY <3>2, <3>3 DEF WasSent, ByTab
  <2> QED  BY <1>5, <2>1, <2>2
<1>14. SuccessIsConfirmed' /\ ConfirmedInBlock'
  BY <1>2, <1>7 DEF FlowInv, SuccessIsConfirmed, ServerKeeps, Status
<1>15. OneTransactionPerReview'
  <2>1. \A g \in TxHashes : ~ByTab(t.intent, g)
    BY <1>2 DEF FlowInv, WalletAskedOnce
  <2> SUFFICES ASSUME NEW f \in TxHashes, NEW g \in TxHashes, sent'[f] # None, sent'[g] # None,
                      sent'[f] = sent'[g], sent'[f].by = "tab"
               PROVE  f = g
    BY DEF OneTransactionPerReview
  <2>2. CASE f # h /\ g # h
    BY <1>6, <2>2 DEF FlowInv, OneTransactionPerReview
  <2>3. CASE f = h /\ g # h
    BY <1>6, <2>1, <2>3 DEF ByTab
  <2>4. CASE f # h /\ g = h
    BY <1>6, <2>1, <2>4 DEF ByTab
  <2> QED  BY <2>2, <2>3, <2>4
<1>16. RecordWasSent'
  <2> SUFFICES ASSUME record # None
               PROVE  \E g \in TxHashes : record.hash \in {g, None} /\ ByTab(record.intent, g)'
    BY <1>2 DEF RecordWasSent, ByTab
  <2>1. PICK g \in TxHashes : record.hash \in {g, None} /\ ByTab(record.intent, g)
    BY DEF FlowInv, RecordWasSent, ByTab
  <2>2. record.intent \in IntentIds
    BY FlowTypes DEF Records
  <2>3. ByTab(record.intent, g)'
    BY <1>2, <1>6, <2>1, <2>2 DEF ByTab
  <2> QED  BY <2>1, <2>3
<1> QED  BY <1>9, <1>10, <1>11, <1>12, <1>13, <1>14, <1>15, <1>16 DEF FlowInv

(* savePendingIntent: the record is of what was sent.                      *)
LEMMA WalletReturnsStep ==
  ASSUME FlowInv, NEW t \in tasks, WalletReturns(t)
  PROVE  FlowInv'
<1> DEFINE u == [t EXCEPT !.kind = "poll"]
<1>1. /\ t.kind = "returned" /\ record' = [intent |-> t.intent, hash |-> t.hash]
      /\ tasks' = (tasks \ {t}) \cup {u}
      /\ phase' \in {"polling", phase}
      /\ UNCHANGED <<device, chain, intents, late, sent, open, mounts, review, lock, called,
                     subject, cancels, phone>>
  BY DEF WalletReturns, server
<1>2. /\ t \in TaskStates /\ t.intent \in IntentIds /\ HasRow(t.intent)
      /\ t.hash \in TxHashes \cup {None} /\ WasSent(t.intent, t.hash)
  BY <1>1, TasksAre DEF Concerns, HasRow, FlowInv, ReturnedWasSent
<1>3. u \in TaskStates /\ u.kind = "poll" /\ u.intent = t.intent
  BY <1>2 DEF TaskStates, Loops
<1> HIDE DEF u
<1>4. ServerKeeps
  BY <1>1, IdleKeeps, FlowTypes
<1>5. TypeOK' /\ OpenIsCounted' /\ PhoneHasIntent'
  <2>1. (tasks \subseteq TaskStates)'
    BY <1>1, <1>3, FlowTypes DEF TaskStates, Mounts
  <2>2. DialogOK'
    BY <1>1, FlowTypes DEF DialogOK, Mounts, Phases
  <2>3. SurroundingsOK'
    BY <1>1, <1>4, SurroundingsStay
  <2>4. record' \in Records \cup {None}
    BY <1>1, <1>2 DEF Records
  <2>5. phase' = "review" => review' # None
    BY <1>1 DEF FlowInv, TypeOK
  <2> QED  BY <1>1, <1>4, <2>1, <2>2, <2>3, <2>4, <2>5, FlowTypes, TypeFrom
<1>6. RowsExist'
  BY <1>1, <1>2, <1>3 DEF FlowInv, RowsExist, HasRow, ByTab
<1>7. ReviewIsNew' /\ WalletAskedOnce'
  BY <1>1, <1>3 DEF FlowInv, ReviewIsNew, WalletAskedOnce, ByTab
<1>8. ReturnedWasSent'
  BY <1>1, <1>3 DEF FlowInv, ReturnedWasSent, WasSent, ByTab
<1>9. SuccessIsConfirmed' /\ ConfirmedInBlock'
  BY <1>1, <1>4 DEF FlowInv, SuccessIsConfirmed, ServerKeeps, Status
<1>10. OneTransactionPerReview' /\ RecordWasSent'
  BY <1>1, <1>2 DEF FlowInv, OneTransactionPerReview, RecordWasSent, WasSent, ByTab
<1> QED  BY <1>5, <1>6, <1>7, <1>8, <1>9, <1>10 DEF FlowInv

-----------------------------------------------------------------------------
(* The phone, the server and the clock.                                    *)

(* A step that leaves the dialog and its tasks alone.                      *)
LEMMA OutsideStep ==
  ASSUME FlowInv, ServerKeeps, SurroundingsOK', UNCHANGED <<device, sent, record, dialog, tasks>>
  PROVE  FlowInv'
<1>1. /\ UNCHANGED <<device, sent, record, open, mounts, phase, review, lock, called, subject>>
      /\ tasks' = tasks
  BY DEF dialog
<1>2. DialogOK'
  BY <1>1, FlowTypes DEF DialogOK, Mounts
<1>3. tasks' \subseteq TaskStates /\ \A t \in tasks' : t.kind \in Concerns => HasRow(t.intent)
  BY <1>1, FlowTypes DEF FlowInv, RowsExist
<1>4. open' /\ phase' = "success" => open /\ phase = "success" /\ subject' = subject
  BY <1>1
<1> QED  BY <1>1, <1>2, <1>3, <1>4, FlowStep

LEMMA CancelEndsStep ==
  ASSUME FlowInv, CancelEnds
  PROVE  FlowInv'
<1>1. ServerKeeps
  BY LapseKeeps, IdleKeeps, CancelsStay, FlowTypes DEF CancelEnds
<1>2. SurroundingsOK'
  <2>1. late' = late /\ phone' = phone
    BY DEF CancelEnds
  <2>2. cancels' \in 0 .. MaxCancels
    BY FlowTypes, FlowAssumption DEF CancelEnds, SurroundingsOK, FlowAssumption
  <2> QED  BY <1>1, <2>1, <2>2, FlowTypes
           DEF SurroundingsOK, ServerKeeps, PhoneStates, PhoneHasIntent
<1> QED  BY <1>1, <1>2, OutsideStep DEF CancelEnds

LEMMA MineStep ==
  ASSUME FlowInv, NEW h \in TxHashes, NEW ok \in BOOLEAN, Mine(h, ok)
  PROVE  FlowInv'
<1>1. ServerKeeps
  BY RecordKeeps, FlowTypes DEF Mine
<1>2. UNCHANGED <<device, sent, record, dialog, tasks>> /\ UNCHANGED <<late, cancels, phone>>
  BY DEF Mine, others
<1> QED  BY <1>1, <1>2, SurroundingsStay, OutsideStep

LEMMA TimePassesStep ==
  ASSUME FlowInv, NEW i \in IntentIds, TimePasses(i)
  PROVE  FlowInv'
<1>1. /\ UNCHANGED <<chain, intents, phone, cancels>>
      /\ UNCHANGED <<device, sent, record, dialog, tasks>>
      /\ late' = late \cup {i} /\ intents[i] # None
  BY DEF TimePasses, others
<1>2. ServerKeeps
  BY <1>1, IdleKeeps, FlowTypes
<1>3. SurroundingsOK'
  BY <1>1, FlowTypes DEF SurroundingsOK, PhoneStates, PhoneHasIntent
<1> QED  BY <1>1, <1>2, <1>3, OutsideStep

LEMMA PhoneStep ==
  ASSUME FlowInv, PhoneOpens \/ PhoneConfirmed \/ PhoneFails \/ PhoneCancels
  PROVE  FlowInv'
<1>1. UNCHANGED <<device, sent, record, dialog, tasks, cancels>> /\ late' = late
  BY DEF PhoneOpens, PhoneConfirmed, PhoneFails, PhoneCancels, others, server
<1>2. phone \in PhoneStates /\ PhoneHasIntent
  BY FlowTypes DEF SurroundingsOK
<1>3. ServerKeeps
  <2>1. CASE PhoneOpens
    <3>1. PICK i \in IntentIds : chain' = chain /\ (intents' = intents \/ Server!Lapse({i}, Wallet))
      BY <2>1 DEF PhoneOpens
    <3>2. {i} \in SUBSET IntentIds
      OBVIOUS
    <3> QED  BY <3>1, <3>2, LapseKeeps, IdleKeeps, FlowTypes
  <2>2. CASE PhoneConfirmed \/ PhoneFails
    <3>1. /\ phone.intent \in IntentIds /\ phone.hash \in TxHashes \cup {None}
          /\ Confirms(phone.intent, phone.hash) \/ ConfirmFails(phone.intent, phone.hash)
      BY <1>2, <2>2 DEF PhoneConfirmed, PhoneFails, PhoneStates, PhoneHasIntent
    <3> DEFINE i == phone.intent
               h == phone.hash
    <3>2. ServerFacts
      BY FlowTypes
    <3>3. CASE Confirms(i, h)
      <4>1. i \in IntentIds /\ h \in TxHashes /\ Server!Settle(i, h)
        BY <3>1, <3>3 DEF Confirms
      <4> QED  BY <3>2, <4>1, SettleKeeps
    <3>4. CASE ConfirmFails(i, h)
      <4>1. \/ UNCHANGED <<chain, intents>>
            \/ Server!Lapse({i}, Wallet)
            \/ h \in TxHashes /\ Server!Settle(i, h)
        BY <3>1, <3>4 DEF ConfirmFails
      <4>2. {i} \in SUBSET IntentIds
        BY <3>1
      <4> QED  BY <3>1, <3>2, <4>1, <4>2, SettleKeeps, LapseKeeps, IdleKeeps
    <3> QED  BY <3>1, <3>3, <3>4
  <2>3. CASE PhoneCancels
    BY <2>3, IdleKeeps, FlowTypes DEF PhoneCancels, server
  <2> QED  BY <2>1, <2>2, <2>3
<1>4. phone' \in PhoneStates /\ PhoneHasIntent'
  <2>1. NoPhone \in PhoneStates /\ NoPhone.pc = "none"
    BY DEF NoPhone, PhoneStates
  <2>2. CASE PhoneOpens
    <3>1. PICK i \in IntentIds : \/ phone' = [pc |-> "ready", intent |-> i, hash |-> None]
                                 \/ phone' = [NoPhone EXCEPT !.intent = i]
      BY <2>2 DEF PhoneOpens
    <3>2. [NoPhone EXCEPT !.intent = i] \in PhoneStates /\ [NoPhone EXCEPT !.intent = i].pc = "none"
      BY DEF NoPhone, PhoneStates
    <3> QED  BY <3>1, <3>2 DEF PhoneStates, PhoneHasIntent
  <2>3. CASE PhoneConfirmed
    BY <2>3 DEF PhoneConfirmed, NoPhone, PhoneStates, PhoneHasIntent
  <2>4. CASE PhoneFails
    BY <1>2, <2>4 DEF PhoneFails, PhoneStates, PhoneHasIntent
  <2>5. CASE PhoneCancels
    BY <2>1, <2>5 DEF PhoneCancels, PhoneHasIntent
  <2> QED  BY <2>2, <2>3, <2>4, <2>5
<1>5. SurroundingsOK'
  BY <1>1, <1>3, <1>4, FlowTypes DEF SurroundingsOK, ServerKeeps
<1> QED  BY <1>1, <1>3, <1>5, OutsideStep

(* What the phone sends is not the tab's.                                  *)
LEMMA PhoneSendsStep ==
  ASSUME FlowInv, PhoneSends
  PROVE  FlowInv'
<1>1. PICK h \in TxHashes, hash \in TxHashes \cup {None} :
        Sends(phone.intent, h, "phone") /\ phone' = [phone EXCEPT !.pc = "poll", !.hash = hash]
  BY DEF PhoneSends
<1>2. /\ phone.pc = "ready"
      /\ UNCHANGED <<device, chain, intents, late, record, open, mounts, phase, review, lock,
                     called, subject, cancels, tasks>>
  BY DEF PhoneSends, dialog, server
<1>3. phone \in PhoneStates /\ phone.intent \in IntentIds
  BY <1>2, FlowTypes DEF SurroundingsOK, PhoneHasIntent
<1>4. PICK i \in IntentIds : i = phone.intent
  BY <1>3
<1>5. Sends(i, h, "phone") /\ "phone" \in {"tab", "phone"} /\ "phone" # "tab"
  BY <1>1, <1>4
<1>6. /\ sent' \in [TxHashes -> Sendings \cup {None}]
      /\ sent[h] = None /\ sent'[h] = [intent |-> i, by |-> "phone"]
      /\ \A g \in TxHashes : g # h => sent'[g] = sent[g]
  BY <1>5, SendsIs
<1>7. \A j \in IntentIds, g \in TxHashes : ByTab(j, g) => sent'[g] = [intent |-> j, by |-> "tab"]
  <2>1. \A j \in IntentIds, g \in TxHashes : ByTab(j, g) => g # h
    BY <1>5, SendsIs
  <2> QED  BY <1>6, <2>1 DEF ByTab
<1>8. \A j, g : g \in TxHashes /\ sent'[g] = [intent |-> j, by |-> "tab"] => ByTab(j, g)
  <2> SUFFICES ASSUME NEW j, NEW g \in TxHashes, sent'[g] = [intent |-> j, by |-> "tab"]
               PROVE  ByTab(j, g)
    OBVIOUS
  <2>1. sent'[g].by = "tab"
    OBVIOUS
  <2>2. g # h
    BY <1>6, <2>1
  <2> QED  BY <1>6, <2>2 DEF ByTab
<1>9. ServerKeeps
  BY <1>2, IdleKeeps, FlowTypes
<1>10. TypeOK' /\ OpenIsCounted' /\ PhoneHasIntent'
  <2>1. (tasks \subseteq TaskStates)'
    BY <1>2, FlowTypes DEF TaskStates, Mounts
  <2>2. DialogOK'
    BY <1>2, FlowTypes DEF DialogOK, Mounts
  <2>3. phone' \in PhoneStates /\ PhoneHasIntent'
    BY <1>1, <1>3 DEF PhoneStates, PhoneHasIntent
  <2>4. SurroundingsOK'
    BY <1>2, <2>3, FlowTypes DEF SurroundingsOK, PhoneStates
  <2>5. phase' = "review" => review' # None
    BY <1>2 DEF FlowInv, TypeOK
  <2> QED  BY <1>2, <1>6, <1>9, <2>1, <2>2, <2>4, <2>5, FlowTypes, TypeFrom
<1>11. RowsExist'
  BY <1>2, <1>8 DEF FlowInv, RowsExist, HasRow, ByTab
<1>12. ReviewIsNew' /\ WalletAskedOnce'
  BY <1>2, <1>8 DEF FlowInv, ReviewIsNew, WalletAskedOnce, ByTab
<1>13. ReturnedWasSent'
  <2> SUFFICES ASSUME NEW v \in tasks, v.kind = "returned"
               PROVE  \E g \in TxHashes : v.hash \in {g, None}
                                          /\ sent'[g] = [intent |-> v.intent, by |-> "tab"]
    BY <1>2 DEF ReturnedWasSent, WasSent, ByTab
  <2>1. v.intent \in IntentIds /\ WasSent(v.intent, v.hash)
    BY TasksAre DEF FlowInv, ReturnedWasSent, Concerns
  <2> QED  BY <1>7, <2>1 DEF WasSent
<1>14. SuccessIsConfirmed' /\ ConfirmedInBlock'
  BY <1>2, <1>9 DEF FlowInv, SuccessIsConfirmed, ServerKeeps, Status
<1>15. OneTransactionPerReview'
  <2> SUFFICES ASSUME NEW f \in TxHashes, NEW g \in TxHashes, sent'[f] # None, sent'[g] # None,
                      sent'[f] = sent'[g], sent'[f].by = "tab"
               PROVE  f = g
    BY DEF OneTransactionPerReview
  <2>1. sent'[h].by = "phone"
    BY <1>6
  <2>2. f # h /\ g # h
    BY <1>5, <2>1
  <2> QED  BY <1>6, <2>2 DEF FlowInv, OneTransactionPerReview
<1>16. RecordWasSent'
  <2> SUFFICES ASSUME record # None
               PROVE  \E g \in TxHashes : record.hash \in {g, None}
                                          /\ sent'[g] = [intent |-> record.intent, by |-> "tab"]
    BY <1>2 DEF RecordWasSent
  <2>1. PICK g \in TxHashes : record.hash \in {g, None} /\ ByTab(record.intent, g)
    BY DEF FlowInv, RecordWasSent, ByTab
  <2>2. record.intent \in IntentIds
    BY FlowTypes DEF Records
  <2> QED  BY <1>7, <2>1, <2>2
<1> QED  BY <1>10, <1>11, <1>12, <1>13, <1>14, <1>15, <1>16 DEF FlowInv

-----------------------------------------------------------------------------
(* The invariant is inductive.                                             *)

LEMMA InitFlow ==
  ASSUME Init
  PROVE  FlowInv
<1>1. /\ MaxCancels \in Nat /\ Mounts \in Nat /\ 0 \in 0 .. Mounts /\ 0 \in 0 .. MaxCancels
  BY FlowAssumption DEF FlowAssumption, Mounts
<1>2. TypeOK
  BY <1>1 DEF Init, TypeOK, NoPhone
<1>3. \A i \in IntentIds, h \in TxHashes : ~ByTab(i, h)
  <2> SUFFICES ASSUME NEW i \in IntentIds PROVE [intent |-> i, by |-> "tab"] # None
    BY DEF Init, ByTab
  <2>1. [intent |-> i, by |-> "tab"] \in Sendings
    BY DEF Sendings
  <2> QED  BY <2>1, FlowAssumption DEF FlowAssumption
<1>4. OpenIsCounted /\ PhoneHasIntent /\ ConfirmedInBlock
  BY DEF Init, OpenIsCounted, PhoneHasIntent, ConfirmedInBlock, NoPhone
<1>5. RowsExist /\ ReviewIsNew /\ WalletAskedOnce /\ ReturnedWasSent
  BY <1>3 DEF Init, RowsExist, ReviewIsNew, WalletAskedOnce, ReturnedWasSent
<1>6. SuccessIsConfirmed /\ OneTransactionPerReview /\ RecordWasSent
  BY DEF Init, SuccessIsConfirmed, OneTransactionPerReview, RecordWasSent
<1> QED  BY <1>2, <1>4, <1>5, <1>6 DEF FlowInv

LEMMA TaskKeepsFlow ==
  ASSUME FlowInv, NEW t \in tasks, TaskStep(t)
  PROVE  FlowInv'
<1>1. CASE CreateArrives(t)
  BY <1>1, CreateArrivesStep
<1>2. CASE \E i \in IntentIds : CreateAnswers(t, i)
  BY <1>2, CreateAnswersStep
<1>3. CASE WalletSends(t)
  BY <1>3, WalletSendsStep
<1>4. CASE WalletReturns(t)
  BY <1>4, WalletReturnsStep
<1>5. CASE CreateFails(t) \/ Cleared(t) \/ WalletRefuses(t) \/ PollFails(t) \/ PollTimesOut(t)
  BY <1>5, FailStep
<1>6. CASE PollConfirmed(t)
  BY <1>6, PollConfirmedStep
<1>7. CASE LoopAborted(t) \/ PhoneLoopConfirmed(t) \/ PhoneLoopEnds(t)
  BY <1>7, LoopEndStep
<1> QED  BY <1>1, <1>2, <1>3, <1>4, <1>5, <1>6, <1>7 DEF TaskStep

LEMMA StepKeepsFlow ==
  ASSUME FlowInv, [Next]_vars
  PROVE  FlowInv'
<1>1. CASE \E matches \in BOOLEAN : Open(matches)
  BY <1>1, OpenStep
<1>2. CASE Close \/ Unmount \/ Reload
  BY <1>2, LeaveStep
<1>3. CASE Continue \/ ContinueRefused \/ CancelReview \/ TryAgain \/ ClearPending
  BY <1>3, ButtonStep
<1>4. CASE ReviewConfirm
  BY <1>4, ReviewConfirmStep
<1>5. CASE \E t \in tasks : TaskStep(t)
  BY <1>5, TaskKeepsFlow
<1>6. CASE CancelEnds
  BY <1>6, CancelEndsStep
<1>7. CASE PhoneOpens \/ PhoneConfirmed \/ PhoneFails \/ PhoneCancels
  BY <1>7, PhoneStep
<1>8. CASE PhoneSends
  BY <1>8, PhoneSendsStep
<1>9. CASE \E h \in TxHashes, ok \in BOOLEAN : Mine(h, ok)
  BY <1>9, MineStep
<1>10. CASE \E i \in IntentIds : TimePasses(i)
  BY <1>10, TimePassesStep
<1>11. CASE UNCHANGED vars
  <2>1. UNCHANGED <<chain, intents, late, cancels, phone>>
        /\ UNCHANGED <<device, sent, record, dialog, tasks>>
    BY <1>11 DEF vars, dialog
  <2>2. ServerKeeps
    BY <2>1, IdleKeeps, FlowTypes
  <2> QED  BY <2>1, <2>2, SurroundingsStay, OutsideStep
<1> QED  BY <1>1, <1>2, <1>3, <1>4, <1>5, <1>6, <1>7, <1>8, <1>9, <1>10, <1>11 DEF Next

-----------------------------------------------------------------------------
(* The theorems.                                                           *)

(* The invariant holds: what outlives the dialog agrees with the server.   *)
THEOREM FlowInvariant == Spec => []FlowInv
<1>1. Init => FlowInv
  BY InitFlow
<1>2. FlowInv /\ [Next]_vars => FlowInv'
  BY StepKeepsFlow
<1> QED  BY <1>1, <1>2, PTL DEF Spec

(* The dialog, its record, its tasks, the phone and the server's rows stay *)
(* within their types.                                                     *)
THEOREM TypeCorrect == Spec => []TypeOK
<1>1. FlowInv => TypeOK
  BY DEF FlowInv
<1> QED  BY <1>1, FlowInvariant, PTL

(* markConfirmed of StakeFlow.tsx: a success is shown only of an intent    *)
(* that a transaction in a block has confirmed, for any number of dialogs, *)
(* intents, transactions and answers under way.                            *)
THEOREM SuccessesAreConfirmed == Spec => []SuccessIsConfirmed
<1>1. FlowInv => SuccessIsConfirmed
  BY DEF FlowInv
<1> QED  BY <1>1, FlowInvariant, PTL

(* providerCalledRef and the fresh intent of every review: the tab sends   *)
(* at most one transaction for an intent.                                  *)
THEOREM ReviewsAreSentOnce == Spec => []OneTransactionPerReview
<1>1. FlowInv => OneTransactionPerReview
  BY DEF FlowInv
<1> QED  BY <1>1, FlowInvariant, PTL

(* savePendingIntent: what a reload resumes was sent by this wallet.       *)
THEOREM RecordsWereSent == Spec => []RecordWasSent
<1>1. FlowInv => RecordWasSent
  BY DEF FlowInv
<1> QED  BY <1>1, FlowInvariant, PTL
=============================================================================
