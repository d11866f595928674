-------------------------------- MODULE Kms --------------------------------
(***************************************************************************)
(* The key management system (Drivers/kms.c): queries for authentication   *)
(* keys, repeated each KMS_QUERY_TIMEOUT_SEC, and the messages that answer *)
(* them, reassembled and accepted with the expected transaction id.  A     *)
(* message of any kind ends the query.                                     *)
(*                                                                         *)
(* kms_process_1s runs once a second, from v_1sTasks; a second passes      *)
(* after it has run (assumed: the main loop is not a second late).  Times  *)
(* are ages in seconds.  The system sends at most one new message a        *)
(* second, so that transaction ids take TidMod seconds to come round:      *)
(* longer than a message may be late and its context last, together.       *)
(***************************************************************************)
EXTENDS Reassembly

CONSTANTS
  Data,           \* the contents of each message; messages may be equal
  Valid,          \* messages that kms_apply_complete_message applies
  RxTimeout,      \* KMS_RX_TIMEOUT_SEC
  QueryTimeout,   \* KMS_QUERY_TIMEOUT_SEC
  MaxRetries,     \* KMS_QUERY_MAX_RETRIES
  MaxQueries      \* bound: queries in a behaviour

VARIABLES
  kms_rx_context,
  rx_age,                \* age of kms_rx_context, at most RxTimeout + 1
  kms_rx_last,           \* kms_rx_last_valid, _transaction_id and _data
  kms_rx_expected_transaction_id,
  kms_query_pending,
  kms_query_retry_count,
  query_age,             \* age of the query, at most QueryTimeout
  second_due,            \* scheduler_1s_flag
  \* The key management system (external).
  sent,                  \* messages sent so far
  rested,                \* no message has been sent in this second
  \* History.
  accepted,              \* the number of messages accepted
  taken,                 \* the messages the fragments of the last one are of
  asked,                 \* queries started
  tries,                 \* transmissions of the last query
  failed                 \* the last query was given up

rxVars == <<kms_rx_context, rx_age, kms_rx_last, kms_rx_expected_transaction_id>>
queryVars == <<kms_query_pending, kms_query_retry_count, query_age>>
history == <<accepted, taken, asked, tries, failed>>
vars == <<rxVars, queryVars, second_due, sent, rested, history>>

(***************************************************************************)
(* Slips a programmer could make in the definitions below.  Nothing uses   *)
(* them: put in the place of the originals, they make the properties fail. *)
(***************************************************************************)

\* A partial message that is kept however old it is.
NeverTimesOut == FALSE

\* A query whose end is not noticed once its retries are used up.
QueryTimedOutWithRetryLeft ==
  kms_query_pending /\ query_age >= QueryTimeout /\ kms_query_retry_count < MaxRetries

-----------------------------------------------------------------------------
Init ==
  /\ kms_rx_context = Idle
  /\ rx_age = 0
  /\ kms_rx_last = [valid |-> FALSE, tid |-> 0, content |-> NothingYet]
  /\ kms_rx_expected_transaction_id = 0
  /\ kms_query_pending = FALSE /\ kms_query_retry_count = 0 /\ query_age = 0
  /\ second_due = FALSE
  /\ sent = 0 /\ rested = TRUE
  /\ accepted = 0 /\ taken = {} /\ asked = 0 /\ tries = 0 /\ failed = FALSE

\* The system sends its next message, asked or not (external).
Send ==
  /\ sent < MaxPackets /\ rested
  /\ sent' = sent + 1 /\ rested' = FALSE
  /\ UNCHANGED <<rxVars, queryVars, second_due, history>>

\* kms_send_auth_key_query; the buses may refuse it.  A query under way is
\* simply replaced.
SendAuthKeyQuery(took) ==
  /\ asked < MaxQueries
  /\ asked' = asked + 1
  /\ IF took
     THEN /\ kms_query_pending' = TRUE /\ kms_query_retry_count' = 0 /\ query_age' = 0
          /\ tries' = 1 /\ failed' = FALSE
     ELSE UNCHANGED <<queryVars, tries, failed>>
  /\ UNCHANGED <<rxVars, second_due, sent, rested, accepted, taken>>

(***************************************************************************)
(* kms_rx_handle                                                           *)
(***************************************************************************)
Opens(f) ==
  \/ ~kms_rx_context.active
  \/ kms_rx_context.tid # Tid(f.pkt)
  \/ kms_rx_context.total # Total[f.pkt]

ContextFor(f) == IF Opens(f) THEN Begun(f) ELSE kms_rx_context

Content(ctx) == [i \in DOMAIN ctx.got |-> Data[ctx.got[i]]]

\* A repetition is acknowledged, or counted as a conflict: neither is seen here.
Repeats(ctx) == kms_rx_last.valid /\ ctx.tid = kms_rx_last.tid

Unexpected(ctx) == kms_rx_last.valid /\ ctx.tid # kms_rx_expected_transaction_id

EndQuery == kms_query_pending' = FALSE /\ kms_query_retry_count' = 0 /\ query_age' = 0

\* kms_apply_complete_message: the type is known and the message long enough.
Applies(ctx) == Sources(ctx) \subseteq Valid

\* A message is taken over, and any query ends, if it can be applied.
Accept(ctx) ==
  IF Applies(ctx)
  THEN /\ kms_rx_last' = [valid |-> TRUE, tid |-> ctx.tid, content |-> Content(ctx)]
       /\ kms_rx_expected_transaction_id' = NextTid(ctx.tid)
       /\ EndQuery
       /\ accepted' = accepted + 1
       /\ taken' = Sources(ctx)
  ELSE UNCHANGED <<kms_rx_last, kms_rx_expected_transaction_id, queryVars, accepted, taken>>

Store(f) ==
  LET ctx == Stored(ContextFor(f), f)
  IN /\ kms_rx_context' = IF Complete(ctx) THEN Idle ELSE ctx
     /\ rx_age' = IF Complete(ctx) \/ Opens(f) THEN 0 ELSE rx_age
     /\ IF Complete(ctx) /\ ~Repeats(ctx) /\ ~Unexpected(ctx)
        THEN Accept(ctx)
        ELSE UNCHANGED <<kms_rx_last, kms_rx_expected_transaction_id, queryVars,
                         accepted, taken>>

\* Only fragment 0 opens a context; a fragment that is there is ignored.
RxHandle(f) ==
  /\ IF f.index \in DOMAIN ContextFor(f).got \/ (Opens(f) /\ f.index # 0)
     THEN UNCHANGED <<rxVars, queryVars, accepted, taken>>
     ELSE Store(f)
  /\ UNCHANGED <<second_due, sent, rested, asked, tries, failed>>

(***************************************************************************)
(* kms_process_1s.  What becomes of a repeated query is not looked at.     *)
(***************************************************************************)
RxTimedOut == kms_rx_context.active /\ rx_age > RxTimeout

QueryTimedOut == kms_query_pending /\ query_age >= QueryTimeout

MayRepeat == kms_query_retry_count < MaxRetries

Process1s ==
  /\ second_due
  /\ second_due' = FALSE
  /\ IF RxTimedOut THEN kms_rx_context' = Idle /\ rx_age' = 0
                   ELSE UNCHANGED <<kms_rx_context, rx_age>>
  /\ \/ ~QueryTimedOut /\ UNCHANGED <<queryVars, tries, failed>>
     \/ /\ QueryTimedOut /\ MayRepeat
        /\ kms_query_retry_count' = kms_query_retry_count + 1
        /\ query_age' = 0
        /\ tries' = tries + 1
        /\ UNCHANGED <<kms_query_pending, failed>>
     \/ QueryTimedOut /\ ~MayRepeat /\ EndQuery /\ failed' = TRUE /\ UNCHANGED tries
  /\ UNCHANGED <<kms_rx_last, kms_rx_expected_transaction_id, sent, rested, accepted,
                 taken, asked>>

\* rtiNotification: seconds_uptime++.
Second ==
  /\ ~second_due
  /\ second_due' = TRUE
  /\ rested' = TRUE
  /\ rx_age' = IF kms_rx_context.active /\ rx_age <= RxTimeout THEN rx_age + 1 ELSE rx_age
  /\ query_age' = IF kms_query_pending /\ query_age < QueryTimeout
                  THEN query_age + 1 ELSE query_age
  /\ UNCHANGED <<kms_rx_context, kms_rx_last, kms_rx_expected_transaction_id,
                 kms_query_pending, kms_query_retry_count, sent, history>>

Next ==
  \/ Send
  \/ \E took \in BOOLEAN : SendAuthKeyQuery(took)
  \/ \E f \in Arriving(sent) : RxHandle(f)
  \/ Process1s
  \/ Second

Spec == Init /\ [][Next]_vars

\* The one-second interrupt comes, and the main loop runs its task.
FairSpec == Spec /\ WF_vars(Second) /\ WF_vars(Process1s)

-----------------------------------------------------------------------------
(* Properties *)

TypeOK ==
  /\ IsContext(kms_rx_context) /\ rx_age \in 0..(RxTimeout + 1)
  /\ kms_rx_last.valid \in BOOLEAN /\ kms_rx_last.tid \in 0..(TidMod - 1)
  /\ kms_rx_expected_transaction_id \in 0..(TidMod - 1)
  /\ kms_query_pending \in BOOLEAN
  /\ kms_query_retry_count \in 0..MaxRetries
  /\ query_age \in 0..QueryTimeout
  /\ second_due \in BOOLEAN
  /\ sent \in 0..MaxPackets /\ rested \in BOOLEAN
  /\ accepted \in 0..MaxPackets /\ taken \subseteq Packets
  /\ asked \in 0..MaxQueries /\ tries \in 0..(MaxRetries + 1) /\ failed \in BOOLEAN

\* Keys that are taken over are those of one message: a partial one is gone
\* before the system comes round to its transaction id.
MessageIsWhole == \A p, q \in taken : p = q

\* Messages are accepted in the order in which they were sent, each once.
AcceptsInOrder == accepted' # accepted => \A p \in taken, q \in taken' : p < q

\* A query ends, by a message or by being given up, however partial
\* messages, timeouts and further queries come together.
EveryQueryEnds == kms_query_pending ~> ~kms_query_pending
=============================================================================
