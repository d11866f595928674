--------------------------- MODULE PlatformProofs ---------------------------
(***************************************************************************)
(* The table of interrupt handlers, for all errors, requests and entries   *)
(* that go wrong; the sending of CAN frames, for every choice of boxes and *)
(* any number of calls and interrupts; and the bytes of the GPS receivers, *)
(* for rings and frames of every length.                                   *)
(***************************************************************************)
EXTENDS CanBus, Interrupts, GpsBytes, FiniteSetTheorems, SequenceTheorems,
        WellFoundedInduction, TLAPS

-----------------------------------------------------------------------------
(* The interrupts *)

\* The table never differs from the initial one: what goes wrong is a parity.
TableInv ==
  /\ vimRAM = s_vim_init
  /\ requested \subseteq Irqs
  /\ errors \subseteq Errors
  /\ raised \in [Errors -> Nat] /\ told \in [Errors -> Nat]
  /\ HandlersAreRequested

\* Every nonempty set of numbers has a least one.
LEMMA LeastExists ==
  ASSUME NEW S \in SUBSET Nat, S # {}
  PROVE  \E m \in S : \A n \in S : m <= n
<1> DEFINE R == {pair \in Nat \X Nat : pair[1] < pair[2]}
<1>1. IsWellFoundedOn(R, Nat)
  BY NatLessThanWellFounded, Zenon DEF OpToRel
<1>2. \A m, n \in S : n < m => <<n, m>> \in R
  OBVIOUS
<1> HIDE DEF R
<1>3. PICK m \in S : \A n \in S : ~(<<n, m>> \in R)
  BY <1>1, WFMin
<1>4. \A n \in S : ~(n < m)
  BY <1>2, <1>3
<1>5. QED
  BY <1>4

LEMMA FirstFacts ==
  ASSUME NEW S \in SUBSET Nat, S # {}
  PROVE  First(S) \in S
BY LeastExists, Zenon DEF First

\* The entry of an IRQ names the handler that clears its request.
LEMMA TableFacts ==
  ASSUME NEW c \in Irqs
  PROVE  SourceOf(s_vim_init[c]) = c
<1>1. c \in {2, 3, 13, 16, 35, 64, 74} /\ c \in Enabled
  BY DEF Irqs, Enabled
<1>2. s_vim_init[c] = CASE c = 0 -> "esmHighInterrupt"
                        [] c = 2 -> "rtiCompare0Interrupt"
                        [] c = 3 -> "rtiCompare1Interrupt"
                        [] c = 13 -> "linHighLevelInterrupt"
                        [] c = 16 -> "can1HighLevelInterrupt"
                        [] c = 35 -> "can2HighLevelInterrupt"
                        [] c = 64 -> "sciHighLevelInterrupt"
                        [] c = 74 -> "sciLowLevelInterrupt"
  BY <1>1 DEF s_vim_init
<1>3. QED
  BY <1>1, <1>2 DEF SourceOf

\* Correcting an entry restores the one that was there.
LEMMA CorrectKeepsTable ==
  ASSUME vimRAM = s_vim_init, Correct
  PROVE  vimRAM' = s_vim_init
BY DEF Correct, InitialEntry, s_vim_init

LEMMA InterruptInitHolds == InterruptInit => TableInv
BY DEF InterruptInit, TableInv, HandlersAreRequested

\* What the hardware does.
LEMMA HardwareKeeps ==
  ASSUME TableInv,
         \/ \E c \in Irqs : Request(c) \/ Flip(c)
         \/ \E e \in Errors : RaiseError(e)
  PROVE  TableInv'
<1>1. ASSUME NEW c \in Irqs, Request(c) \/ Flip(c)
      PROVE  TableInv'
  BY <1>1 DEF TableInv, HandlersAreRequested, Request, Flip, vimVars
<1>2. ASSUME NEW e \in Errors, RaiseError(e)
      PROVE  TableInv'
  <2>1. /\ UNCHANGED <<vimRAM, requested, misled, told>>
        /\ e \notin errors /\ errors' = errors \cup {e}
        /\ raised' = [raised EXCEPT ![e] = @ + 1]
    BY <1>2 DEF RaiseError, vimVars
  <2>2. raised' \in [Errors -> Nat]
    BY <2>1 DEF TableInv
  <2>3. ASSUME NEW x \in Errors
        PROVE  raised'[x] = told'[x] + (IF x \in errors' THEN 1 ELSE 0)
    BY <2>1 DEF TableInv, HandlersAreRequested
  <2>4. QED
    BY <2>1, <2>2, <2>3 DEF TableInv, HandlersAreRequested
<1>3. QED
  BY <1>1, <1>2

\* A handler that is fetched from the table has a request to clear.
LEMMA FetchKeeps ==
  ASSUME TableInv, NEW c \in requested, Fetch(c) \/ FetchFallback(c)
  PROVE  TableInv'
<1>1. CASE Fetch(c)
  <2>1. c \in Irqs /\ SourceOf(vimRAM[c]) = c
    BY TableFacts DEF TableInv
  <2>2. /\ requested' = requested \ {c} /\ misled' = misled
        /\ UNCHANGED <<vimRAM, errors, raised, told>>
    BY <1>1, <2>1 DEF Fetch, vimVars
  <2>3. QED
    BY <2>2 DEF TableInv, HandlersAreRequested
<1>2. CASE FetchFallback(c)
  BY <1>2 DEF FetchFallback, TableInv, HandlersAreRequested
<1>3. QED
  BY <1>1, <1>2

\* vimParityErrorHandler corrects the table, and tells at most one error, which
\* it clears.
LEMMA ParityKeeps ==
  ASSUME TableInv, vimParityErrorHandler
  PROVE  TableInv'
<1>1. /\ vimRAM' = s_vim_init /\ UNCHANGED <<requested, misled, raised>>
  BY CorrectKeepsTable DEF vimParityErrorHandler, TableInv
<1>2. CASE Interrupting = {}
  <2>1. UNCHANGED <<errors, told>>
    BY <1>2 DEF vimParityErrorHandler
  <2>2. QED
    BY <1>1, <2>1 DEF TableInv, HandlersAreRequested
<1>3. CASE Interrupting # {}
  <2> DEFINE e == First(Interrupting)
  <2>1. e \in errors /\ e \in Errors
    BY <1>3, FirstFacts, InterruptsAssumption DEF TableInv, Interrupting
  <2>2. errors' = errors \ {e} /\ told' = [told EXCEPT ![e] = @ + 1]
    BY <1>3 DEF vimParityErrorHandler, HandleError
  <2> HIDE DEF e
  <2>3. told' \in [Errors -> Nat]
    BY <2>1, <2>2 DEF TableInv
  <2>4. ASSUME NEW x \in Errors
        PROVE  raised'[x] = told'[x] + (IF x \in errors' THEN 1 ELSE 0)
    BY <1>1, <2>1, <2>2 DEF TableInv, HandlersAreRequested
  <2>5. QED
    BY <1>1, <2>2, <2>3, <2>4 DEF TableInv, HandlersAreRequested
<1>4. QED
  BY <1>2, <1>3

LEMMA InterruptNextKeeps == TableInv /\ [InterruptNext]_interruptVars => TableInv'
<1> SUFFICES ASSUME TableInv, [InterruptNext]_interruptVars PROVE TableInv'
  OBVIOUS
<1>1. CASE UNCHANGED interruptVars
  BY <1>1 DEF interruptVars, vimVars, TableInv, HandlersAreRequested
<1>2. QED
  BY <1>1, HardwareKeeps, FetchKeeps, ParityKeeps DEF InterruptNext, Handlers

\* No handler runs without a request, and every error is told at most once,
\* whichever entries of the table go wrong and whenever.
THEOREM NoHandlerUnasked == InterruptSpec => []HandlersAreRequested
<1>1. TableInv => HandlersAreRequested
  BY DEF TableInv
<1>2. QED
  BY InterruptInitHolds, InterruptNextKeeps, <1>1, PTL DEF InterruptSpec

-----------------------------------------------------------------------------
(* The sending *)

Sending == pc \in {"check", "command", "data", "transfer"}

BusTypes ==
  /\ if1_cmd \in [Controllers -> {CONFIGURE, SEND}] /\ if1_data \in [Controllers -> Nat]
  /\ msg_data \in [Controllers -> [TxBoxes -> Nat]]
  /\ txrq \in [Controllers -> SUBSET TxBoxes]
  /\ accepted \in [Controllers -> [TxBoxes -> Seq(Nat)]]
  /\ wire \in [Controllers -> [TxBoxes -> Seq(Nat)]]
  /\ node \in Controllers /\ data \in Nat
  /\ Sending => box \in Used
  /\ can_dual_tx_reject_count \in Nat

\* A transfer that has begun finds the command and the data as it left them,
\* whatever interrupts came in between, and its box is free.
TransferInv ==
  /\ pc \in {"data", "transfer"} => if1_cmd[node] = SEND
  /\ pc = "transfer" => if1_data[node] = data
  /\ pc \in {"command", "data", "transfer"} => box \notin txrq[node]

\* The numbers of the calls that a controller has accepted.
CallsInv == \A n \in Controllers, b \in TxBoxes :
  \A k \in DOMAIN accepted[n][b] : accepted[n][b][k] \in 1..data

InOrder == \A n \in Controllers, b \in TxBoxes :
  accepted[n][b] = wire[n][b] \o (IF b \in txrq[n] THEN <<msg_data[n][b]>> ELSE <<>>)

Took(n, b, d) == \E k \in DOMAIN accepted[n][b] : accepted[n][b][k] = d

RefusedCalls == {d \in 1..data : \A n \in Controllers, b \in Used : ~Took(n, b, d)}

\* The counter is ahead of no call and behind no call that is over; "mask"
\* tells whether the present one has been accepted.
CountInv ==
  /\ ~Sending => can_dual_tx_reject_count = Cardinality(RefusedCalls)
  /\ Sending => /\ can_dual_tx_reject_count = Cardinality(RefusedCalls \ {data})
                /\ data >= 1
                /\ data \in RefusedCalls <=> mask = {}
                /\ node = 1 => mask = {}

BusInv == BusTypes /\ TransferInv /\ CallsInv /\ InOrder /\ CountInv

\* What CountInv speaks of.
countVars == <<pc, node, data, mask, accepted, can_dual_tx_reject_count>>

LEMMA RefusedFacts ==
  ASSUME BusTypes
  PROVE  IsFiniteSet(RefusedCalls) /\ Cardinality(RefusedCalls) \in Nat
         /\ IsFiniteSet(RefusedCalls \ {data}) /\ Cardinality(RefusedCalls \ {data}) \in Nat
         /\ Cardinality(RefusedCalls) = Cardinality(RefusedCalls \ {data})
                                       + (IF data \in RefusedCalls THEN 1 ELSE 0)
<1>1. IsFiniteSet(1..data) /\ RefusedCalls \subseteq 1..data
  BY FS_Interval DEF BusTypes, RefusedCalls
<1>2. IsFiniteSet(RefusedCalls) /\ Cardinality(RefusedCalls) \in Nat
  BY <1>1, FS_Subset, FS_CardinalityType
<1>3. /\ IsFiniteSet(RefusedCalls \ {data})
      /\ Cardinality(RefusedCalls \ {data}) =
           IF data \in RefusedCalls THEN Cardinality(RefusedCalls) - 1 ELSE Cardinality(RefusedCalls)
  BY <1>2, FS_RemoveElement
<1>4. Cardinality(RefusedCalls \ {data}) \in Nat
  BY <1>3, FS_CardinalityType
<1>5. QED
  BY <1>2, <1>3, <1>4

\* Steps that send nothing and accept nothing.
LEMMA OrderUntouched ==
  ASSUME BusInv, UNCHANGED <<msg_data, txrq, accepted, wire>>
  PROVE  InOrder'
<1>1. msg_data' = msg_data /\ txrq' = txrq /\ accepted' = accepted /\ wire' = wire
  OBVIOUS
<1>2. QED
  BY <1>1, Zenon DEF BusInv, InOrder

LEMMA CallsUntouched ==
  ASSUME BusInv, UNCHANGED <<msg_data, txrq, accepted, wire, data>>
  PROVE  CallsInv' /\ InOrder' /\ RefusedCalls' = RefusedCalls
<1>1. CallsInv' /\ RefusedCalls' = RefusedCalls
  BY DEF BusInv, CallsInv, RefusedCalls, Took
<1>2. QED
  BY <1>1, OrderUntouched

LEMMA BusInitHolds == BusInit => BusInv
<1> SUFFICES ASSUME BusInit PROVE BusInv
  OBVIOUS
<1>1. pc = "interface" /\ ~Sending /\ node = 1 /\ data = 0 /\ can_dual_tx_reject_count = 0
  BY DEF BusInit, Sending
<1>2. BusTypes
  BY <1>1 DEF BusInit, BusTypes, Controllers
<1>3. CallsInv /\ InOrder
  BY DEF BusInit, CallsInv, InOrder
<1>4. RefusedCalls = {}
  BY <1>1 DEF RefusedCalls
<1>5. CountInv
  BY <1>1, <1>4, FS_EmptySet DEF CountInv
<1>6. QED
  BY <1>1, <1>2, <1>3, <1>5 DEF BusInv, TransferInv

\* Steps before the sending: nothing is requested yet, or no call is open.
LEMMA PreparationKeeps ==
  ASSUME BusInv,
         Can1InterfaceInit \/ Can2InterfaceInit \/ CommandId \/ WriteArbitration \/ TransferId
           \/ StartSending
  PROVE  BusInv'
<1>1. /\ UNCHANGED <<if1_data, msg_data, txrq, accepted, wire, data, can_dual_tx_reject_count>>
      /\ ~Sending /\ ~Sending'
  BY DEF Can1InterfaceInit, Can2InterfaceInit, PrepareInterface, CommandId, WriteArbitration,
         TransferId, StartSending, ifVars, objectVars, callVars, rejectCounts, Sending
<1>2. if1_cmd' \in [Controllers -> {CONFIGURE, SEND}] /\ node' \in Controllers
  BY DEF Can1InterfaceInit, Can2InterfaceInit, PrepareInterface, CommandId, WriteArbitration,
         TransferId, StartSending, ifVars, callVars, BusInv, BusTypes, Controllers
<1>3. BusTypes'
  BY <1>1, <1>2 DEF BusInv, BusTypes
<1>4. TransferInv'
  BY <1>1 DEF TransferInv, Sending
<1>5. CallsInv' /\ InOrder' /\ RefusedCalls' = RefusedCalls
  BY <1>1, CallsUntouched
<1>6. CountInv'
  BY <1>1, <1>5 DEF BusInv, CountInv
<1>7. QED
  BY <1>3, <1>4, <1>5, <1>6 DEF BusInv

\* can_transmit_redundant begins: the call is not accepted yet.
LEMMA BeginKeeps ==
  ASSUME BusInv, NEW b \in Used, BeginTransmit(b)
  PROVE  BusInv'
<1>1. /\ UNCHANGED <<if1_cmd, if1_data, msg_data, txrq, accepted, wire, can_dual_tx_reject_count>>
      /\ ~Sending /\ pc' = "check" /\ Sending'
      /\ node' = 1 /\ mask' = {} /\ box' = b /\ data' = data + 1
      /\ data \in Nat
  BY DEF BeginTransmit, ifVars, objectVars, rejectCounts, Sending, BusInv, BusTypes
<1>2. BusTypes'
  BY <1>1 DEF BusInv, BusTypes, Controllers
<1>3. TransferInv'
  BY <1>1 DEF TransferInv
<1>4. CallsInv' /\ InOrder'
  <2>1. \A x \in 1..data : x \in 1..data'
    BY <1>1
  <2>2. CallsInv'
    BY <1>1, <2>1, Zenon DEF BusInv, CallsInv
  <2>3. QED
    BY <1>1, <2>2, OrderUntouched
<1>5. \A n \in Controllers, c \in Used : ~Took(n, c, data + 1)
  BY <1>1, CanBusAssumption DEF BusInv, CallsInv, Took
<1>6. RefusedCalls' = RefusedCalls \cup {data + 1} /\ data + 1 \notin RefusedCalls
  <2>1. RefusedCalls' = {d \in 1..(data + 1) : \A n \in Controllers, c \in Used : ~Took(n, c, d)}
    BY <1>1 DEF RefusedCalls, Took
  <2> HIDE DEF Took
  <2>2. QED
    BY <1>1, <1>5, <2>1 DEF RefusedCalls
<1>7. RefusedCalls' \ {data'} = RefusedCalls
  BY <1>1, <1>6
<1>8. CountInv'
  <2>1. can_dual_tx_reject_count' = Cardinality(RefusedCalls' \ {data'})
    BY <1>1, <1>7 DEF BusInv, CountInv
  <2>2. data' \in RefusedCalls' /\ data' >= 1
    BY <1>1, <1>6
  <2>3. QED
    BY <1>1, <2>1, <2>2 DEF CountInv
<1>9. QED
  BY <1>2, <1>3, <1>4, <1>8 DEF BusInv

\* canTransmit up to the transfer: checks, the command and the data.
LEMMA CanTransmitKeeps ==
  ASSUME BusInv, Check \/ CommandData \/ WriteData
  PROVE  BusInv'
<1>1. /\ UNCHANGED <<msg_data, txrq, accepted, wire, box, node, data, mask,
                     can_dual_tx_reject_count>>
      /\ Sending /\ Sending' /\ node \in Controllers /\ data \in Nat
  BY DEF Check, CommandData, WriteData, ifVars, objectVars, callVars, rejectCounts, Sending,
         BusInv, BusTypes
<1>2. /\ if1_cmd' \in [Controllers -> {CONFIGURE, SEND}]
      /\ if1_data' \in [Controllers -> Nat]
  BY <1>1 DEF Check, CommandData, WriteData, ifVars, BusInv, BusTypes
<1>3. BusTypes'
  BY <1>1, <1>2 DEF BusInv, BusTypes
<1>4. TransferInv'
  BY <1>1 DEF BusInv, BusTypes, TransferInv, Check, CommandData, WriteData, ifVars
<1>5. CallsInv' /\ InOrder' /\ RefusedCalls' = RefusedCalls
  BY <1>1, CallsUntouched
<1>6. CountInv'
  BY <1>1, <1>5 DEF BusInv, CountInv
<1>7. QED
  BY <1>3, <1>4, <1>5, <1>6 DEF BusInv

\* A controller whose box is taken refuses the call; the second one of two
\* that do so counts it.
LEMMA RefuseKeeps ==
  ASSUME BusInv, Refuse
  PROVE  BusInv'
<1>1. /\ UNCHANGED <<if1_cmd, if1_data, msg_data, txrq, accepted, wire, box, data>>
      /\ mask' = mask /\ Sending /\ node \in Controllers
      /\ node' = 3 - node /\ pc' = (IF node = 1 THEN "check" ELSE "idle")
      /\ can_dual_tx_reject_count' =
           can_dual_tx_reject_count + (IF node = 2 /\ mask = {} THEN 1 ELSE 0)
      /\ can_dual_tx_reject_count \in Nat
  BY DEF Refuse, AfterTransmit, ifVars, objectVars, Sending, BusInv, BusTypes
<1>2. Sending' <=> node = 1
  BY <1>1 DEF Sending
<1>3. BusTypes'
  <2>1. node' \in Controllers /\ can_dual_tx_reject_count' \in Nat
    BY <1>1 DEF Controllers
  <2>2. QED
    BY <1>1, <2>1 DEF BusInv, BusTypes
<1>4. TransferInv'
  BY <1>1 DEF TransferInv
<1>5. CallsInv' /\ InOrder' /\ RefusedCalls' = RefusedCalls
  BY <1>1, CallsUntouched
<1>6. CountInv'
  <2>1. CASE node = 1
    BY <1>1, <1>2, <1>5, <2>1 DEF BusInv, CountInv
  <2>2. CASE node # 1
    <3>1. node = 2 /\ ~Sending'
      BY <1>1, <1>2, <2>2 DEF Controllers
    <3>2. can_dual_tx_reject_count' = Cardinality(RefusedCalls)
      BY <1>1, <3>1, RefusedFacts DEF BusInv, CountInv
    <3>3. QED
      BY <1>5, <3>1, <3>2 DEF CountInv
  <2>3. QED
    BY <2>1, <2>2
<1>7. QED
  BY <1>3, <1>4, <1>5, <1>6 DEF BusInv

\* The transfer starts with the command and the data of its call: the box
\* holds the data and is requested.
LEMMA TransferKeeps ==
  ASSUME BusInv, TransferData
  PROVE  BusInv'
<1>1. /\ if1_cmd[node] = SEND /\ if1_data[node] = data /\ box \notin txrq[node]
      /\ node \in Controllers /\ box \in Used /\ box \in TxBoxes /\ data \in Nat /\ Sending
      /\ data >= 1
  BY CanBusAssumption DEF TransferData, BusInv, BusTypes, TransferInv, Sending, CountInv
<1>2. /\ UNCHANGED <<if1_cmd, if1_data, wire, box, data>>
      /\ msg_data' = [msg_data EXCEPT ![node][box] = data]
      /\ txrq' = [txrq EXCEPT ![node] = @ \cup {box}]
      /\ accepted' = [accepted EXCEPT ![node][box] = Append(@, data)]
      /\ mask' = mask \cup {node}
      /\ node' = 3 - node /\ pc' = (IF node = 1 THEN "check" ELSE "idle")
      /\ can_dual_tx_reject_count' =
           can_dual_tx_reject_count + (IF node = 2 /\ mask' = {} THEN 1 ELSE 0)
  BY <1>1 DEF TransferData, AfterTransmit, ifVars
<1>3. /\ mask' # {} /\ can_dual_tx_reject_count' = can_dual_tx_reject_count
      /\ (Sending' <=> node = 1)
  <2>1. mask' # {}
    BY <1>2
  <2>2. QED
    BY <1>2, <2>1 DEF Sending, BusInv, BusTypes
<1>4. /\ accepted[node][box] \in Seq(Nat)
      /\ accepted'[node][box] = Append(accepted[node][box], data)
      /\ msg_data'[node][box] = data /\ txrq'[node] = txrq[node] \cup {box}
  BY <1>1, <1>2 DEF BusInv, BusTypes
<1>5. \A n \in Controllers, b \in TxBoxes : n # node \/ b # box =>
        /\ accepted'[n][b] = accepted[n][b] /\ msg_data'[n][b] = msg_data[n][b]
        /\ b \in txrq'[n] <=> b \in txrq[n]
  BY <1>1, <1>2 DEF BusInv, BusTypes
<1>6. BusTypes'
  <2>1. msg_data' \in [Controllers -> [TxBoxes -> Nat]] /\ txrq' \in [Controllers -> SUBSET TxBoxes]
    BY <1>1, <1>2 DEF BusInv, BusTypes
  <2>2. accepted' \in [Controllers -> [TxBoxes -> Seq(Nat)]]
    <3>1. Append(accepted[node][box], data) \in Seq(Nat)
      BY <1>1, <1>4
    <3>2. QED
      BY <1>1, <1>2, <3>1 DEF BusInv, BusTypes
  <2>3. node' \in Controllers
    BY <1>1, <1>2 DEF Controllers
  <2>4. QED
    BY <1>1, <1>2, <1>3, <2>1, <2>2, <2>3 DEF BusInv, BusTypes
<1>7. TransferInv'
  BY <1>2 DEF TransferInv
<1>8. /\ DOMAIN accepted'[node][box] = 1..(Len(accepted[node][box]) + 1)
      /\ DOMAIN accepted[node][box] = 1..Len(accepted[node][box])
      /\ Len(accepted[node][box]) \in Nat
      /\ \A k \in 1..Len(accepted[node][box]) : accepted'[node][box][k] = accepted[node][box][k]
      /\ accepted'[node][box][Len(accepted[node][box]) + 1] = data
  BY <1>1, <1>4
<1>9. CallsInv'
  <2>1. ASSUME NEW n \in Controllers, NEW b \in TxBoxes, NEW k \in DOMAIN accepted'[n][b]
        PROVE  accepted'[n][b][k] \in 1..data
    <3>1. CASE n = node /\ b = box
      <4>1. CASE k = Len(accepted[node][box]) + 1
        BY <1>1, <1>8, <3>1, <4>1
      <4>2. CASE k \in 1..Len(accepted[node][box])
        BY <1>1, <1>8, <3>1, <4>2 DEF BusInv, CallsInv
      <4>3. QED
        BY <1>8, <3>1, <4>1, <4>2
    <3>2. CASE n # node \/ b # box
      BY <1>5, <3>2 DEF BusInv, CallsInv
    <3>3. QED
      BY <3>1, <3>2
  <2>2. QED
    BY <1>2, <2>1 DEF CallsInv
<1>10. InOrder'
  <2>1. ASSUME NEW n \in Controllers, NEW b \in TxBoxes
        PROVE  accepted'[n][b] =
                 wire'[n][b] \o (IF b \in txrq'[n] THEN <<msg_data'[n][b]>> ELSE <<>>)
    <3>1. CASE n = node /\ b = box
      <4>1. wire[node][box] \in Seq(Nat)
        BY <1>1 DEF BusInv, BusTypes
      <4>2. accepted[node][box] = wire[node][box] \o <<>>
        BY <1>1, Zenon DEF BusInv, InOrder
      <4>3. accepted[node][box] = wire[node][box]
        BY <4>1, <4>2
      <4>4. accepted'[node][box] = wire[node][box] \o <<data>>
        <5>1. accepted[node][box] \in Seq(Nat) /\ data \in Nat
          BY <1>1, <1>4
        <5>2. Append(accepted[node][box], data) = accepted[node][box] \o <<data>>
          BY <5>1, AppendIsConcat, Zenon
        <5>3. QED
          BY <1>4, <4>3, <5>2, Zenon
      <4>5. box \in txrq'[node] /\ wire' = wire
        BY <1>2, <1>4
      <4>6. QED
        BY <1>4, <3>1, <4>4, <4>5, Zenon
    <3>2. CASE n # node \/ b # box
      <4>1. accepted'[n][b] = accepted[n][b] /\ msg_data'[n][b] = msg_data[n][b]
        BY <1>5, <3>2, Zenon
      <4>2. (b \in txrq'[n] <=> b \in txrq[n]) /\ wire' = wire
        BY <1>2, <1>5, <3>2
      <4>3. accepted[n][b] = wire[n][b] \o (IF b \in txrq[n] THEN <<msg_data[n][b]>> ELSE <<>>)
        BY Zenon DEF BusInv, InOrder
      <4>4. QED
        BY <4>1, <4>2, <4>3, Zenon
    <3>3. QED
      BY <3>1, <3>2
  <2>2. QED
    BY <2>1 DEF InOrder
<1>11. ASSUME NEW d \in 1..data, NEW n \in Controllers, NEW b \in TxBoxes
       PROVE  Took(n, b, d)' <=> Took(n, b, d) \/ (n = node /\ b = box /\ d = data)
  <2>1. CASE n = node /\ b = box
    <3> DEFINE old == accepted[node][box]
               new == accepted'[node][box]
    <3>1. /\ DOMAIN new = 1..(Len(old) + 1) /\ DOMAIN old = 1..Len(old) /\ Len(old) \in Nat
          /\ \A k \in 1..Len(old) : new[k] = old[k]
          /\ new[Len(old) + 1] = data
      BY <1>8
    <3>2. Took(n, b, d)' <=> \E k \in DOMAIN new : new[k] = d
      BY <2>1 DEF Took
    <3>3. Took(n, b, d) <=> \E k \in DOMAIN old : old[k] = d
      BY <2>1 DEF Took
    <3> HIDE DEF old, new
    <3>4. (\E k \in DOMAIN new : new[k] = d) <=> (\E k \in DOMAIN old : old[k] = d) \/ d = data
      <4>1. \A k \in DOMAIN old : k \in DOMAIN new /\ new[k] = old[k]
        BY <3>1
      <4>2. \A k \in DOMAIN new : k \in DOMAIN old \/ new[k] = data
        BY <3>1
      <4>3. Len(old) + 1 \in DOMAIN new
        BY <3>1
      <4>4. QED
        BY <3>1, <4>1, <4>2, <4>3
    <3>5. QED
      BY <2>1, <3>2, <3>3, <3>4
  <2>2. CASE n # node \/ b # box
    <3>1. accepted'[n][b] = accepted[n][b]
      BY <1>5, <2>2, Zenon
    <3>2. QED
      BY <2>2, <3>1, Zenon DEF Took
  <2>3. QED
    BY <2>1, <2>2
<1>12. CountInv'
  <2>1. RefusedCalls' = RefusedCalls \ {data}
    <3>1. ASSUME NEW d \in 1..data
          PROVE  (\A n \in Controllers, b \in Used : ~Took(n, b, d)')
                   <=> (\A n \in Controllers, b \in Used : ~Took(n, b, d)) /\ d # data
      <4>1. \A n \in Controllers, b \in Used :
              Took(n, b, d)' <=> Took(n, b, d) \/ (n = node /\ b = box /\ d = data)
        BY <1>11, CanBusAssumption
      <4>2. QED
        BY <1>1, <4>1, Zenon
    <3>2. RefusedCalls' = {d \in 1..data : \A n \in Controllers, b \in Used : ~Took(n, b, d)'}
      BY <1>2 DEF RefusedCalls
    <3>3. RefusedCalls = {d \in 1..data : \A n \in Controllers, b \in Used : ~Took(n, b, d)}
      BY DEF RefusedCalls
    <3>4. QED
      BY <3>1, <3>2, <3>3, Zenon
  <2>2. RefusedCalls' \ {data'} = RefusedCalls \ {data} /\ data' \notin RefusedCalls'
    BY <1>2, <2>1
  <2>3. can_dual_tx_reject_count' = Cardinality(RefusedCalls \ {data})
    BY <1>1, <1>3 DEF BusInv, CountInv
  <2>4. /\ can_dual_tx_reject_count' = Cardinality(RefusedCalls' \ {data'})
        /\ can_dual_tx_reject_count' = Cardinality(RefusedCalls')
    BY <2>1, <2>2, <2>3
  <2>5. data' \notin RefusedCalls' /\ data' >= 1
    BY <1>1, <1>2, <2>2
  <2>6. Sending' => mask' # {}
    BY <1>3
  <2>7. Sending' => (node' = 2)
    BY <1>2, <1>3
  <2>8. QED
    BY <2>4, <2>5, <2>6, <2>7 DEF CountInv
<1>13. QED
  BY <1>6, <1>7, <1>9, <1>10, <1>12 DEF BusInv

\* An interrupt leaves the command register as the sending needs it.
LEMMA InterruptKeeps ==
  ASSUME BusInv, NEW n \in Controllers, ReceiveInterrupt(n)
  PROVE  BusInv'
<1>1. /\ UNCHANGED <<if1_data, msg_data, txrq, accepted, wire, pc, node, box, data, mask,
                     can_dual_tx_reject_count>>
      /\ if1_cmd' = [if1_cmd EXCEPT ![n] = SEND]
  BY DEF ReceiveInterrupt, objectVars, callVars, rejectCounts
<1>2. BusTypes'
  BY <1>1 DEF BusInv, BusTypes, Sending
<1>3. TransferInv'
  BY <1>1 DEF BusInv, BusTypes, TransferInv
<1>4. CallsInv' /\ InOrder' /\ RefusedCalls' = RefusedCalls
  BY <1>1, CallsUntouched
<1>5. CountInv'
  BY <1>1, <1>4 DEF BusInv, CountInv, Sending
<1>6. QED
  BY <1>2, <1>3, <1>4, <1>5 DEF BusInv

\* The controller sends what the box holds, which is the last it was given.
LEMMA SendKeeps ==
  ASSUME BusInv, NEW n \in Controllers, NEW b \in Used, SendFrame(n, b)
  PROVE  BusInv'
<1>1. /\ UNCHANGED <<if1_cmd, if1_data, msg_data, accepted, pc, node, box, data, mask,
                     can_dual_tx_reject_count>>
      /\ b \in txrq[n] /\ b \in TxBoxes
      /\ txrq' = [txrq EXCEPT ![n] = @ \ {b}]
      /\ wire' = [wire EXCEPT ![n][b] = Append(@, msg_data[n][b])]
  BY CanBusAssumption DEF SendFrame, ifVars, callVars, rejectCounts
<1>2. /\ wire[n][b] \in Seq(Nat) /\ msg_data[n][b] \in Nat
      /\ wire'[n][b] = Append(wire[n][b], msg_data[n][b]) /\ b \notin txrq'[n]
  BY <1>1 DEF BusInv, BusTypes
<1>3. ASSUME NEW m \in Controllers, NEW c \in TxBoxes, m # n \/ c # b
      PROVE  wire'[m][c] = wire[m][c] /\ (c \in txrq'[m] <=> c \in txrq[m])
  BY <1>1, <1>3 DEF BusInv, BusTypes
<1>4. \A m \in Controllers : txrq'[m] \subseteq txrq[m]
  BY <1>1 DEF BusInv, BusTypes
<1>5. BusTypes'
  <2>1. txrq' \in [Controllers -> SUBSET TxBoxes]
    BY <1>1 DEF BusInv, BusTypes
  <2>2. wire' \in [Controllers -> [TxBoxes -> Seq(Nat)]]
    <3>1. Append(wire[n][b], msg_data[n][b]) \in Seq(Nat)
      BY <1>2
    <3>2. QED
      BY <1>1, <3>1 DEF BusInv, BusTypes
  <2>3. QED
    BY <1>1, <2>1, <2>2 DEF BusInv, BusTypes, Sending
<1>6. TransferInv'
  BY <1>1, <1>4 DEF BusInv, BusTypes, TransferInv
<1>7. CallsInv' /\ RefusedCalls' = RefusedCalls
  BY <1>1 DEF BusInv, CallsInv, RefusedCalls, Took
<1>8. InOrder'
  <2>1. ASSUME NEW m \in Controllers, NEW c \in TxBoxes
        PROVE  accepted'[m][c] =
                 wire'[m][c] \o (IF c \in txrq'[m] THEN <<msg_data'[m][c]>> ELSE <<>>)
    <3>1. CASE m = n /\ c = b
      <4>1. accepted[n][b] = wire[n][b] \o <<msg_data[n][b]>>
        BY <1>1, Zenon DEF BusInv, InOrder
      <4>2. wire'[n][b] = wire[n][b] \o <<msg_data[n][b]>> /\ wire'[n][b] \in Seq(Nat)
        <5>1. Append(wire[n][b], msg_data[n][b]) = wire[n][b] \o <<msg_data[n][b]>>
          BY <1>2, AppendIsConcat, Zenon
        <5>2. Append(wire[n][b], msg_data[n][b]) \in Seq(Nat)
          BY <1>2
        <5>3. QED
          BY <1>2, <5>1, <5>2
      <4>3. wire'[n][b] \o <<>> = wire'[n][b]
        BY <4>2
      <4>4. accepted' = accepted
        BY <1>1
      <4>5. QED
        BY <1>2, <3>1, <4>1, <4>2, <4>3, <4>4, Zenon
    <3>2. CASE m # n \/ c # b
      <4>1. accepted[m][c] = wire[m][c] \o (IF c \in txrq[m] THEN <<msg_data[m][c]>> ELSE <<>>)
        BY Zenon DEF BusInv, InOrder
      <4>2. accepted' = accepted /\ msg_data' = msg_data
        BY <1>1
      <4>3. QED
        BY <1>3, <3>2, <4>1, <4>2, Zenon
    <3>3. QED
      BY <3>1, <3>2
  <2>2. QED
    BY <2>1 DEF InOrder
<1>9. CountInv'
  BY <1>1, <1>7 DEF BusInv, CountInv, Sending
<1>10. QED
  BY <1>5, <1>6, <1>7, <1>8, <1>9 DEF BusInv

LEMMA BusNextKeeps == BusInv /\ [BusNext]_busVars => BusInv'
<1> SUFFICES ASSUME BusInv, [BusNext]_busVars PROVE BusInv'
  OBVIOUS
<1>1. CASE UNCHANGED busVars
  <2>1. UNCHANGED <<if1_cmd, if1_data, msg_data, txrq, accepted, wire, pc, node, box, data, mask,
                    can_dual_tx_reject_count>>
    BY <1>1 DEF busVars, ifVars, objectVars, callVars, rejectCounts
  <2>2. BusTypes' /\ TransferInv'
    BY <2>1 DEF BusInv, BusTypes, TransferInv, Sending
  <2>3. CallsInv' /\ InOrder' /\ RefusedCalls' = RefusedCalls
    BY <2>1, CallsUntouched
  <2>4. CountInv'
    BY <2>1, <2>3 DEF BusInv, CountInv, Sending
  <2>5. QED
    BY <2>2, <2>3, <2>4 DEF BusInv
<1>2. CASE Program
  BY <1>2, PreparationKeeps, RefuseKeeps, CanTransmitKeeps, TransferKeeps DEF Program
<1>3. QED
  BY <1>1, <1>2, BeginKeeps, InterruptKeeps, SendKeeps DEF BusNext

\* Every frame that canTransmit accepts goes out once, whole and in order, and
\* can_dual_tx_reject_count counts exactly the calls that neither bus accepts.
THEOREM SentAsAccepted == BusSpec => []AcceptedIsSent
<1>1. BusInv => AcceptedIsSent
  <2> SUFFICES ASSUME BusInv PROVE AcceptedIsSent
    OBVIOUS
  <2>1. InOrder
    BY DEF BusInv
  <2>2. pc = "idle" => can_dual_tx_reject_count = Cardinality(RefusedCalls)
    BY DEF BusInv, CountInv, Sending
  <2>3. RefusedCalls = {d \in 1..data : \A n \in Controllers, b \in Used :
                          \A k \in DOMAIN accepted[n][b] : accepted[n][b][k] # d}
    BY DEF RefusedCalls, Took
  <2>4. QED
    BY <2>1, <2>2, <2>3, Zenon DEF AcceptedIsSent, InOrder
<1>2. QED
  BY BusInitHolds, BusNextKeeps, <1>1, PTL DEF BusSpec

-----------------------------------------------------------------------------
(* The bytes of the GPS receivers *)

LineBytes == [gps : Gps, num : Nat]

Turns == {"arm", "arming", "look", "take", "aborted"}

LineTypes ==
  /\ rx_byte \in LineBytes
  /\ rx_length \in [Gps -> {0, 1}] /\ rx_data \in [Gps -> BOOLEAN]
  /\ isr = <<>> \/ \E g \in Gps : isr = <<g>>
  /\ rx_buf \in [Gps -> [Slots -> LineBytes \cup {0}]]
  /\ rx_head \in [Gps -> Slots] /\ rx_tail \in [Gps -> Slots]
  /\ turn \in [gps : Gps, at : Turns]
  /\ next \in [Gps -> Nat \ {0}]

ParserTypes ==
  /\ state \in [Gps -> {"SYNC1", "SYNC2", "LEN", "DATA"}]
  /\ frame_index \in [Gps -> Nat] /\ frame_buf \in [Gps -> Nat]
  /\ gps_parsed \in [Gps -> Nat] /\ run \in [Gps -> Nat] /\ good \in [Gps -> Nat]
  /\ strays \in [Gps -> Nat]

\* KavachInit has not called sciReceive for g, or has not come out of it.
Unarmed(g) == turn.at \in {"arm", "arming"} /\ turn.gps <= g

\* No byte of g has come so far to a driver that waits for one.
Silent(g) ==
  /\ rx_head[g] = rx_tail[g] /\ gps_parsed[g] = 0 /\ strays[g] = 0
  /\ ~Own(g, rx_byte)

\* The interrupt that is served is of a driver that waits for nothing, and
\* rx_byte is the byte that it brought, if it was not the first.  Between its two
\* stores sciReceive has set the length.
ServedOf(g) ==
  /\ rx_data[g] => rx_length[g] = 1 /\ isr # <<g>>
  /\ isr = <<g>> => /\ rx_length[g] = 0 /\ next[g] > 1
                    /\ rx_byte = [gps |-> g, num |-> next[g] - 1] \/ Silent(g)
  /\ ~rx_data[g] /\ isr # <<g>> => Silent(g) /\ (Unarmed(g) \/ turn.at = "aborted")
  /\ turn = [gps |-> g, at |-> "arming"] /\ isr # <<g>> => rx_length[g] = 1

ServedInv == \A g \in Gps : ServedOf(g)

\* The next byte that the ring of g may get.
Coming(g) == IF isr = <<g>> THEN next[g] - 1 ELSE next[g]

\* What stands at the k-th place of the ring of g.
HeldByte(g, k) ==
  /\ Kth(g, k) \in LineBytes
  /\ \/ Own(g, Kth(g, k)) /\ Before(g, k) < Kth(g, k).num /\ Kth(g, k).num < Coming(g)
     \/ k = 0 /\ ~Own(g, Kth(g, k)) /\ strays[g] = 1 /\ gps_parsed[g] = 0

\* The bytes in the ring, and the one that is being popped.
RingOf(g) ==
  /\ gps_parsed[g] < Coming(g) /\ strays[g] <= 1
  /\ \A k \in Nat : k < Held(g) => HeldByte(g, k)
  /\ turn = [gps |-> g, at |-> "take"] => Held(g) > 0 /\ popped = <<Kth(g, 0)>>

RingInv == \A g \in Gps : RingOf(g)

\* Where the byte with a number stands, and in which frame.
At(n) == (n - 1) % GPS_FRAME_TOTAL
In(n) == (n - 1) \div GPS_FRAME_TOTAL + 1

\* The value of a byte of g with a number.
ValueOf(g, n) == Value(g, In(n), At(n))

\* The first of the bytes that the parser has gathered.
Gathered(g) == gps_parsed[g] - frame_index[g] + 1

\* If they all came without a gap, then they begin as a header does, which is
\* the header of a frame unless the frame holds another, and what follows the
\* header is of that frame.
HeaderInv(g) ==
  /\ ValueOf(g, Gathered(g)) = "A5"
  /\ frame_index[g] >= 2 => ValueOf(g, Gathered(g) + 1) = "5A"
  /\ frame_index[g] >= 3 /\ HeaderFree(g, In(Gathered(g))) => At(Gathered(g)) = 0
  /\ At(Gathered(g)) = 0 =>
       /\ At(gps_parsed[g]) = frame_index[g] - 1
       /\ frame_index[g] > 3 => frame_buf[g] = In(gps_parsed[g])

\* After a whole frame without a gap, in which there was no other header, the
\* parser keeps step with the frames.
ParserOf(g) ==
  /\ state[g] = "SYNC1" <=> frame_index[g] = 0
  /\ state[g] = "SYNC2" <=> frame_index[g] = 1
  /\ state[g] = "LEN" <=> frame_index[g] = 2
  /\ frame_index[g] < GPS_FRAME_TOTAL
  /\ run[g] <= 2 * GPS_FRAME_TOTAL /\ run[g] <= gps_parsed[g]
  /\ frame_index[g] \in 1..run[g] => HeaderInv(g)
  /\ (run[g] > GPS_FRAME_TOTAL + At(gps_parsed[g]) /\ HeaderFree(g, In(gps_parsed[g]) - 1)) =>
       IF At(gps_parsed[g]) = GPS_FRAME_TOTAL - 1
       THEN frame_index[g] = 0 /\ good[g] = In(gps_parsed[g])
       ELSE frame_index[g] = At(gps_parsed[g]) + 1 /\ At(Gathered(g)) = 0

ParserInv == \A g \in Gps : ParserOf(g)

GpsInv == LineTypes /\ ParserTypes /\ ServedInv /\ RingInv /\ ParserInv

LEMMA PlaceFacts ==
  ASSUME GpsBytesAssumption, NEW n \in Nat \ {0}
  PROVE  /\ At(n) \in Places /\ In(n) \in Nat \ {0}
         /\ n = GPS_FRAME_TOTAL * (In(n) - 1) + At(n) + 1
BY DEF GpsBytesAssumption, At, In, Places

LEMMA PlaceUnique ==
  ASSUME GpsBytesAssumption, NEW m \in Nat, NEW i \in Places, NEW n \in Nat,
         n = GPS_FRAME_TOTAL * m + i + 1
  PROVE  At(n) = i /\ In(n) = m + 1
<1> DEFINE q == In(n) - 1
           r == At(n)
<1>1. GPS_FRAME_TOTAL \in Nat /\ GPS_FRAME_TOTAL > 3 /\ i \in Nat
  BY DEF GpsBytesAssumption, Places
<1>2. n \in Nat \ {0}
  <2>1. GPS_FRAME_TOTAL * m \in Nat
    BY <1>1
  <2>2. QED
    BY <1>1, <2>1
<1>3. n = GPS_FRAME_TOTAL * q + r + 1 /\ q \in Nat /\ r \in Places /\ In(n) = q + 1 /\ At(n) = r
  BY <1>2, PlaceFacts
<1>0. r \in Nat /\ n = GPS_FRAME_TOTAL * m + i + 1
  BY <1>3 DEF Places
<1> HIDE DEF q, r
<1>4. /\ q - m >= 1 => GPS_FRAME_TOTAL * (q - m) >= GPS_FRAME_TOTAL
      /\ q - m <= -1 => GPS_FRAME_TOTAL * (q - m) <= -GPS_FRAME_TOTAL
  BY <1>1, <1>3, SMT
<1>5. GPS_FRAME_TOTAL * (q - m) = i - r
  BY <1>0, <1>1, <1>3, SMT
<1>6. q = m /\ r = i
  BY <1>1, <1>3, <1>4, <1>5 DEF Places
<1>7. QED
  BY <1>3, <1>6

LEMMA NextPlace ==
  ASSUME GpsBytesAssumption, NEW n \in Nat \ {0}
  PROVE  IF At(n) = GPS_FRAME_TOTAL - 1
         THEN At(n + 1) = 0 /\ In(n + 1) = In(n) + 1
         ELSE At(n + 1) = At(n) + 1 /\ In(n + 1) = In(n)
<1>1. At(n) \in Places /\ In(n) \in Nat \ {0} /\ n = GPS_FRAME_TOTAL * (In(n) - 1) + At(n) + 1
  BY PlaceFacts
<1>2. CASE At(n) = GPS_FRAME_TOTAL - 1
  <2>1. n + 1 = GPS_FRAME_TOTAL * In(n) + 0 + 1
    BY <1>1, <1>2, SMTT(30) DEF GpsBytesAssumption
  <2>2. 0 \in Places /\ In(n) \in Nat /\ n + 1 \in Nat
    BY <1>1 DEF Places, GpsBytesAssumption
  <2>3. At(n + 1) = 0 /\ In(n + 1) = In(n) + 1
    BY <2>1, <2>2, PlaceUnique
  <2>4. QED
    BY <1>2, <2>3
<1>3. CASE At(n) # GPS_FRAME_TOTAL - 1
  <2>1. n + 1 = GPS_FRAME_TOTAL * (In(n) - 1) + (At(n) + 1) + 1 /\ At(n) + 1 \in Places
    BY <1>1, <1>3 DEF Places, GpsBytesAssumption
  <2>2. QED
    BY <1>1, <1>3, <2>1, PlaceUnique
<1>4. QED
  BY <1>2, <1>3

LEMMA RingIndex ==
  ASSUME GpsBytesAssumption, NEW i \in Nat, i < 2 * RX_BUF_SIZE
  PROVE  i % RX_BUF_SIZE = IF i < RX_BUF_SIZE THEN i ELSE i - RX_BUF_SIZE
BY SMTT(30) DEF GpsBytesAssumption

\* What moving the head and the tail on does to the number of bytes held.
LEMMA CircleFacts ==
  ASSUME GpsBytesAssumption, NEW h \in Slots, NEW t \in Slots
  PROVE  LET n == (h + RX_BUF_SIZE - t) % RX_BUF_SIZE
         IN /\ n \in Slots /\ After(h) \in Slots /\ After(t) \in Slots
            /\ n = 0 <=> h = t
            /\ (t + n) % RX_BUF_SIZE = h
            /\ \A k \in Nat : k < n =>
                 (t + k) % RX_BUF_SIZE \in Slots /\ (t + k) % RX_BUF_SIZE # h
            /\ After(h) # t => (After(h) + RX_BUF_SIZE - t) % RX_BUF_SIZE = n + 1
            /\ h # t => (h + RX_BUF_SIZE - After(t)) % RX_BUF_SIZE = n - 1
            /\ \A k \in Nat : k < n =>
                 (After(t) + k) % RX_BUF_SIZE = (t + (k + 1)) % RX_BUF_SIZE
<1> DEFINE n == (h + RX_BUF_SIZE - t) % RX_BUF_SIZE
<1>1. RX_BUF_SIZE \in Nat /\ RX_BUF_SIZE > 1 /\ h \in Nat /\ t \in Nat
      /\ h < RX_BUF_SIZE /\ t < RX_BUF_SIZE
  BY DEF GpsBytesAssumption, Slots
<1>2. n = IF h < t THEN h + RX_BUF_SIZE - t ELSE h - t
  BY <1>1, RingIndex
<1>3. /\ After(h) = IF h + 1 < RX_BUF_SIZE THEN h + 1 ELSE 0
      /\ After(t) = IF t + 1 < RX_BUF_SIZE THEN t + 1 ELSE 0
  BY <1>1, RingIndex DEF After
<1> HIDE DEF n
<1>4. n \in Slots /\ After(h) \in Slots /\ After(t) \in Slots /\ (n = 0 <=> h = t)
  BY <1>1, <1>2, <1>3 DEF Slots
<1>5. (t + n) % RX_BUF_SIZE = h
  BY <1>1, <1>2, RingIndex
<1>6. ASSUME NEW k \in Nat, k < n
      PROVE  /\ (t + k) % RX_BUF_SIZE \in Slots /\ (t + k) % RX_BUF_SIZE # h
             /\ (After(t) + k) % RX_BUF_SIZE = (t + (k + 1)) % RX_BUF_SIZE
  <2>1. (t + k) % RX_BUF_SIZE = IF t + k < RX_BUF_SIZE THEN t + k ELSE t + k - RX_BUF_SIZE
    BY <1>1, <1>4, <1>6, RingIndex DEF Slots
  <2>2. (t + (k + 1)) % RX_BUF_SIZE =
          IF t + k + 1 < RX_BUF_SIZE THEN t + k + 1 ELSE t + k + 1 - RX_BUF_SIZE
    BY <1>1, <1>4, <1>6, RingIndex DEF Slots
  <2>3. (After(t) + k) % RX_BUF_SIZE =
          IF After(t) + k < RX_BUF_SIZE THEN After(t) + k ELSE After(t) + k - RX_BUF_SIZE
    BY <1>1, <1>4, <1>6, RingIndex DEF Slots
  <2>4. QED
    BY <1>1, <1>2, <1>3, <1>6, <2>1, <2>2, <2>3 DEF Slots
<1>7. ASSUME After(h) # t
      PROVE  (After(h) + RX_BUF_SIZE - t) % RX_BUF_SIZE = n + 1
  <2>1. After(h) + RX_BUF_SIZE - t \in Nat /\ After(h) + RX_BUF_SIZE - t < 2 * RX_BUF_SIZE
    BY <1>1, <1>3
  <2>2. QED
    BY <1>1, <1>2, <1>3, <1>7, <2>1, RingIndex
<1>8. ASSUME h # t
      PROVE  (h + RX_BUF_SIZE - After(t)) % RX_BUF_SIZE = n - 1
  <2>1. h + RX_BUF_SIZE - After(t) \in Nat /\ h + RX_BUF_SIZE - After(t) < 2 * RX_BUF_SIZE
    BY <1>1, <1>3
  <2>2. QED
    BY <1>1, <1>2, <1>3, <1>8, <2>1, RingIndex
<1>9. QED
  BY <1>4, <1>5, <1>6, <1>7, <1>8 DEF n

\* The same of the ring of a receiver.
LEMMA HeldFacts ==
  ASSUME GpsBytesAssumption, NEW g \in Gps, rx_head[g] \in Slots, rx_tail[g] \in Slots
  PROVE  /\ Held(g) \in Slots
         /\ After(rx_head[g]) \in Slots /\ After(rx_tail[g]) \in Slots
         /\ Held(g) = 0 <=> rx_head[g] = rx_tail[g]
         /\ (rx_tail[g] + Held(g)) % RX_BUF_SIZE = rx_head[g]
         /\ \A k \in Nat : k < Held(g) =>
              /\ (rx_tail[g] + k) % RX_BUF_SIZE \in Slots
              /\ (rx_tail[g] + k) % RX_BUF_SIZE # rx_head[g]
              /\ (After(rx_tail[g]) + k) % RX_BUF_SIZE = (rx_tail[g] + (k + 1)) % RX_BUF_SIZE
         /\ After(rx_head[g]) # rx_tail[g] =>
              (After(rx_head[g]) + RX_BUF_SIZE - rx_tail[g]) % RX_BUF_SIZE = Held(g) + 1
         /\ rx_head[g] # rx_tail[g] =>
              (rx_head[g] + RX_BUF_SIZE - After(rx_tail[g])) % RX_BUF_SIZE = Held(g) - 1
<1> DEFINE h == rx_head[g]
           t == rx_tail[g]
           n == (h + RX_BUF_SIZE - t) % RX_BUF_SIZE
<1>1. h \in Slots /\ t \in Slots /\ Held(g) = n
  BY DEF Held
<1> HIDE DEF h, t
<1>2. /\ n \in Slots /\ After(h) \in Slots /\ After(t) \in Slots
      /\ n = 0 <=> h = t
      /\ (t + n) % RX_BUF_SIZE = h
      /\ \A k \in Nat : k < n =>
           /\ (t + k) % RX_BUF_SIZE \in Slots /\ (t + k) % RX_BUF_SIZE # h
           /\ (After(t) + k) % RX_BUF_SIZE = (t + (k + 1)) % RX_BUF_SIZE
      /\ After(h) # t => (After(h) + RX_BUF_SIZE - t) % RX_BUF_SIZE = n + 1
      /\ h # t => (h + RX_BUF_SIZE - After(t)) % RX_BUF_SIZE = n - 1
  BY <1>1, CircleFacts
<1> HIDE DEF n
<1>3. QED
  BY <1>1, <1>2 DEF h, t

\* Going back within a frame.
LEMMA PlaceBefore ==
  ASSUME GpsBytesAssumption, NEW n \in Nat \ {0}, NEW j \in Nat, j <= At(n)
  PROVE  n - j \in Nat \ {0} /\ At(n - j) = At(n) - j /\ In(n - j) = In(n)
<1>1. GPS_FRAME_TOTAL \in Nat /\ GPS_FRAME_TOTAL > 3
  BY DEF GpsBytesAssumption
<1>2. At(n) \in Places /\ In(n) \in Nat \ {0} /\ n = GPS_FRAME_TOTAL * (In(n) - 1) + At(n) + 1
  BY PlaceFacts
<1>3. GPS_FRAME_TOTAL * (In(n) - 1) \in Nat
  BY <1>1, <1>2
<1>4. /\ n - j = GPS_FRAME_TOTAL * (In(n) - 1) + (At(n) - j) + 1 /\ n - j \in Nat \ {0}
      /\ At(n) - j \in Places
  BY <1>1, <1>2, <1>3 DEF Places
<1>5. QED
  BY <1>2, <1>4, PlaceUnique

\* Only the header of a frame looks like one, if the frame holds no other.
LEMMA HeaderIsFirst ==
  ASSUME GpsBytesAssumption, NEW g \in Gps, NEW q \in Nat \ {0}, HeaderFree(g, In(q)),
         ValueOf(g, q) = "A5", ValueOf(g, q + 1) = "5A", ValueOf(g, q + 2) = "length"
  PROVE  At(q) = 0
<1> SUFFICES ASSUME At(q) # 0 PROVE FALSE
  OBVIOUS
<1> DEFINE i == At(q)
           f == In(q)
<1>1. GPS_FRAME_TOTAL \in Nat /\ GPS_FRAME_TOTAL > 3 /\ i \in Places \ {0}
  BY PlaceFacts DEF GpsBytesAssumption
<1>2. /\ i + 1 \in Places
      /\ Value(g, f, i + 1) = "5A" => i + 2 \in Places /\ Value(g, f, i + 2) # "length"
  BY <1>1 DEF HeaderFree, ValueOf
<1>3. At(q + 1) = i + 1 /\ In(q + 1) = f
  BY <1>1, <1>2, NextPlace DEF Places
<1>4. i + 2 \in Places /\ Value(g, f, i + 2) # "length"
  BY <1>2, <1>3 DEF ValueOf
<1>5. At(q + 1) # GPS_FRAME_TOTAL - 1 /\ q + 1 \in Nat \ {0} /\ (q + 1) + 1 = q + 2
  BY <1>1, <1>3, <1>4 DEF Places
<1>6. At(q + 2) = At(q + 1) + 1 /\ In(q + 2) = In(q + 1)
  BY <1>5, NextPlace
<1>7. At(q + 2) = i + 2 /\ In(q + 2) = f
  BY <1>1, <1>3, <1>6 DEF Places
<1>8. QED
  BY <1>4, <1>7 DEF ValueOf

\* At the end of a frame that came whole and held no other header, the parser has
\* gathered nothing.
LEMMA FrameEnds ==
  ASSUME GpsBytesAssumption, ParserTypes, NEW g \in Gps, ParserOf(g),
         gps_parsed[g] > 0, At(gps_parsed[g]) = GPS_FRAME_TOTAL - 1, run[g] >= GPS_FRAME_TOTAL,
         HeaderFree(g, In(gps_parsed[g]))
  PROVE  frame_index[g] = 0
<1> DEFINE p == gps_parsed[g]
           i == frame_index[g]
           f == In(p)
<1>1. /\ p \in Nat \ {0} /\ i \in Nat /\ run[g] \in Nat /\ i < GPS_FRAME_TOTAL
      /\ At(p) = GPS_FRAME_TOTAL - 1 /\ run[g] >= GPS_FRAME_TOTAL
      /\ i \in 1..run[g] => HeaderInv(g)
  BY DEF ParserTypes, ParserOf
<1>2. /\ \A k \in Places \ {0} : Value(g, f, k) = "A5" =>
           /\ k + 1 \in Places
           /\ Value(g, f, k + 1) = "5A" => k + 2 \in Places /\ Value(g, f, k + 2) # "length"
      /\ GPS_FRAME_TOTAL \in Nat /\ GPS_FRAME_TOTAL > 3
  BY DEF HeaderFree, GpsBytesAssumption
<1> SUFFICES ASSUME i # 0 PROVE FALSE
  OBVIOUS
<1>3. /\ ValueOf(g, p - i + 1) = "A5" /\ (i >= 2 => ValueOf(g, p - i + 1 + 1) = "5A")
      /\ i >= 3 /\ HeaderFree(g, In(p - i + 1)) => At(p - i + 1) = 0
  BY <1>1, <1>2 DEF HeaderInv, Gathered
<1> HIDE DEF p, i
<1>4. i - 1 \in Nat /\ i - 1 <= At(p) /\ p - (i - 1) = p - i + 1
  BY <1>1, <1>2
<1>5. At(p - i + 1) = GPS_FRAME_TOTAL - i /\ In(p - i + 1) = f
  BY <1>1, <1>2, <1>4, PlaceBefore
<1>6. GPS_FRAME_TOTAL - i \in Places \ {0}
  BY <1>1, <1>2 DEF Places
<1>7. GPS_FRAME_TOTAL - i + 1 \in Places
  BY <1>2, <1>3, <1>5, <1>6 DEF ValueOf
<1>8. i = 2
  BY <1>1, <1>2, <1>3, <1>5, <1>6, <1>7 DEF Places, p
<1>9. At(p - i + 1 + 1) = GPS_FRAME_TOTAL - i + 1 /\ In(p - i + 1 + 1) = f
  <2>1. p - 0 = p - i + 1 + 1 /\ 0 <= At(p)
    BY <1>1, <1>2, <1>8
  <2>2. QED
    BY <1>1, <1>2, <1>8, <2>1, PlaceBefore
<1>10. GPS_FRAME_TOTAL - i + 2 \in Places
  <2>1. Value(g, f, GPS_FRAME_TOTAL - i) = "A5"
    BY <1>3, <1>5 DEF ValueOf
  <2>2. Value(g, f, (GPS_FRAME_TOTAL - i) + 1) = "5A"
    <3>1. ValueOf(g, p - i + 1 + 1) = "5A"
      BY <1>3, <1>8
    <3>2. QED
      BY <1>9, <3>1 DEF ValueOf
  <2>3. QED
    BY <1>2, <1>6, <2>1, <2>2
<1>11. QED
  BY <1>2, <1>8, <1>10 DEF Places

\* How far the parser is when byte n comes next, of a frame that came whole so
\* far and after one that came whole and held no other header.
LEMMA KeepsStep ==
  ASSUME GpsBytesAssumption, ParserTypes, NEW g \in Gps, ParserOf(g), NEW n \in Nat,
         n = gps_parsed[g] + 1, run[g] >= GPS_FRAME_TOTAL + At(n), HeaderFree(g, In(n) - 1)
  PROVE  /\ frame_index[g] = At(n)
         /\ At(n) > 0 => At(Gathered(g)) = 0 /\ Gathered(g) \in Nat \ {0}
         /\ At(n) > 3 => frame_buf[g] = In(n)
<1> DEFINE p == gps_parsed[g]
<1>1. GPS_FRAME_TOTAL \in Nat /\ GPS_FRAME_TOTAL > 3
  BY DEF GpsBytesAssumption
<1>2. /\ p \in Nat /\ run[g] \in Nat /\ run[g] <= p /\ n = p + 1 /\ n \in Nat \ {0}
      /\ run[g] <= 2 * GPS_FRAME_TOTAL
      /\ frame_index[g] \in Nat
  BY DEF ParserTypes, ParserOf
<1>3. At(n) \in Places /\ At(n) \in Nat
  <2>1. At(n) \in Places
    BY <1>2, PlaceFacts
  <2>2. QED
    BY <2>1 DEF Places
<1>4. p > 0 /\ p \in Nat \ {0} /\ run[g] >= GPS_FRAME_TOTAL
  BY <1>1, <1>2, <1>3
<1>5. At(p) \in Places /\ In(p) \in Nat
  BY <1>4, PlaceFacts
<1>6. IF At(p) = GPS_FRAME_TOTAL - 1
      THEN At(n) = 0 /\ In(n) = In(p) + 1
      ELSE At(n) = At(p) + 1 /\ In(n) = In(p)
  BY <1>2, <1>4, NextPlace
<1>7. CASE At(p) = GPS_FRAME_TOTAL - 1
  <2>1. At(n) = 0 /\ In(n) - 1 = In(p)
    BY <1>5, <1>6, <1>7
  <2>2. frame_index[g] = 0
    BY <1>4, <1>7, <2>1, FrameEnds
  <2>3. QED
    BY <2>1, <2>2
<1>8. CASE At(p) # GPS_FRAME_TOTAL - 1
  <2>1. At(n) = At(p) + 1 /\ In(n) = In(p) /\ At(p) \in Nat
    BY <1>5, <1>6, <1>8 DEF Places
  <2>2. run[g] > GPS_FRAME_TOTAL + At(p)
    BY <1>1, <1>2, <1>3, <2>1
  <2>3. frame_index[g] = At(p) + 1 /\ At(Gathered(g)) = 0
    <3>1. In(p) - 1 = In(n) - 1 /\ HeaderFree(g, In(p) - 1)
      BY <2>1
    <3>2. QED
      BY <1>8, <2>2, <3>1 DEF ParserOf
  <2>4. At(p) + 1 \in 1..run[g]
    BY <1>1, <1>2, <2>1, <2>2
  <2>5. HeaderInv(g)
    BY <2>3, <2>4 DEF ParserOf
  <2>6. At(n) > 3 => frame_buf[g] = In(p)
    BY <2>1, <2>3, <2>5 DEF HeaderInv
  <2>7. Gathered(g) \in Nat \ {0}
    BY <1>2, <2>3, <2>4 DEF Gathered
  <2>8. QED
    BY <2>1, <2>3, <2>6, <2>7
<1>9. QED
  BY <1>7, <1>8

\* What a parser does with a byte.
Dropped(g) == state'[g] = "SYNC1" /\ frame_index'[g] = 0

Taken(g, b) ==
  /\ frame_index'[g] = frame_index[g] + 1
  /\ frame_buf'[g] = With(frame_buf[g], frame_index[g], b)
  /\ \/ /\ state[g] = "SYNC1" /\ state'[g] = "SYNC2" /\ ByteValue(b) = "A5"
     \/ /\ state[g] = "SYNC2" /\ state'[g] = "LEN" /\ ByteValue(b) = "5A"
     \/ /\ state[g] = "LEN" /\ state'[g] = "DATA" /\ IsLength(b)
     \/ /\ state[g] = "DATA" /\ state'[g] = "DATA" /\ frame_index[g] + 1 < GPS_FRAME_TOTAL

Fits(g, b) ==
  CASE state[g] = "SYNC1" -> ByteValue(b) = "A5"
    [] state[g] = "SYNC2" -> ByteValue(b) = "5A"
    [] state[g] = "LEN" -> IsLength(b)
    [] state[g] = "DATA" -> frame_index[g] + 1 < GPS_FRAME_TOTAL

LEMMA ParseFacts ==
  ASSUME GpsBytesAssumption, ParserTypes, NEW g \in Gps, ParserOf(g), NEW b \in LineBytes,
         ParseByte(g, b)
  PROVE  /\ gps_parsed'[g] = IF Own(g, b) THEN b.num ELSE gps_parsed[g]
         /\ run'[g] = IF ~Own(g, b) THEN 0
                      ELSE IF b.num # gps_parsed[g] + 1 THEN 1
                      ELSE IF run[g] < 2 * GPS_FRAME_TOTAL THEN run[g] + 1 ELSE run[g]
         /\ strays'[g] = IF Own(g, b) THEN 0 ELSE strays[g]
         /\ IF Fits(g, b) THEN Taken(g, b) ELSE Dropped(g)
         /\ good'[g] = IF /\ state[g] = "DATA" /\ ~Fits(g, b)
                          /\ With(frame_buf[g], frame_index[g], b) # 0
                       THEN With(frame_buf[g], frame_index[g], b) ELSE good[g]
         /\ ParserTypes'
         /\ \A h \in Gps \ {g} :
              /\ state'[h] = state[h] /\ frame_index'[h] = frame_index[h]
              /\ frame_buf'[h] = frame_buf[h] /\ good'[h] = good[h]
              /\ gps_parsed'[h] = gps_parsed[h] /\ run'[h] = run[h] /\ strays'[h] = strays[h]
<1> DEFINE counted == IF ~Own(g, b) THEN 0
                      ELSE IF b.num # gps_parsed[g] + 1 THEN 1
                      ELSE IF run[g] < 2 * GPS_FRAME_TOTAL THEN run[g] + 1 ELSE run[g]
<1>1. /\ gps_parsed' = IF Own(g, b) THEN [gps_parsed EXCEPT ![g] = b.num] ELSE gps_parsed
      /\ run' = [run EXCEPT ![g] = counted]
      /\ strays' = IF Own(g, b) THEN [strays EXCEPT ![g] = 0] ELSE strays
  BY DEF ParseByte, ParserTypes
<1>2. b.num \in Nat /\ counted \in Nat
  BY DEF LineBytes, ParserTypes, GpsBytesAssumption
<1> HIDE DEF counted
<1>3. With(frame_buf[g], frame_index[g], b) \in Nat
  <2>1. FrameOf(b) \in Nat
    BY DEF FrameOf, LineBytes, GpsBytesAssumption
  <2>2. QED
    BY <2>1 DEF With
<1>4. GPS_FRAME_TOTAL \in Nat
  BY DEF GpsBytesAssumption
<1>5. /\ gps_parsed' \in [Gps -> Nat] /\ run' \in [Gps -> Nat] /\ strays' \in [Gps -> Nat]
      /\ gps_parsed'[g] = IF Own(g, b) THEN b.num ELSE gps_parsed[g]
      /\ run'[g] = counted
      /\ strays'[g] = IF Own(g, b) THEN 0 ELSE strays[g]
      /\ \A h \in Gps \ {g} :
           gps_parsed'[h] = gps_parsed[h] /\ run'[h] = run[h] /\ strays'[h] = strays[h]
  BY <1>1, <1>2, <1>4 DEF ParserTypes
<1>6. ASSUME NEW s \in {"SYNC1", "SYNC2", "LEN", "DATA"}, NEW i \in Nat, NEW w \in Nat,
             Seek(g, s, i, w)
      PROVE  /\ state'[g] = s /\ frame_index'[g] = i /\ frame_buf'[g] = w
             /\ state' \in [Gps -> {"SYNC1", "SYNC2", "LEN", "DATA"}]
             /\ frame_index' \in [Gps -> Nat] /\ frame_buf' \in [Gps -> Nat]
             /\ \A h \in Gps \ {g} :
              /\ state'[h] = state[h] /\ frame_index'[h] = frame_index[h]
              /\ frame_buf'[h] = frame_buf[h]
  BY <1>6 DEF Seek, ParserTypes
<1>7. CASE ParseHeader(g, b)
  <2>1. /\ good' = good
        /\ \/ state[g] = "SYNC1" /\ ByteValue(b) = "A5" /\ Seek(g, "SYNC2", 1, 0)
           \/ state[g] = "SYNC2" /\ ByteValue(b) = "5A" /\ Seek(g, "LEN", 2, 0)
           \/ state[g] = "LEN" /\ IsLength(b) /\ Seek(g, "DATA", 3, 0)
           \/ /\ Seek(g, "SYNC1", 0, 0)
              /\ \/ state[g] = "SYNC1" /\ ByteValue(b) # "A5"
                 \/ state[g] = "SYNC2" /\ ByteValue(b) # "5A"
                 \/ state[g] = "LEN" /\ ~IsLength(b)
    BY <1>7 DEF ParseHeader
  <2>2. /\ state[g] = "SYNC1" => frame_index[g] = 0
        /\ state[g] = "SYNC2" => frame_index[g] = 1
        /\ state[g] = "LEN" => frame_index[g] = 2
    BY DEF ParserOf
  <2>3. PICK s \in {"SYNC1", "SYNC2", "LEN", "DATA"}, i \in Nat :
          /\ Seek(g, s, i, 0)
          /\ \/ state[g] = "SYNC1" /\ ByteValue(b) = "A5" /\ s = "SYNC2" /\ i = 1
             \/ state[g] = "SYNC2" /\ ByteValue(b) = "5A" /\ s = "LEN" /\ i = 2
             \/ state[g] = "LEN" /\ IsLength(b) /\ s = "DATA" /\ i = 3
             \/ /\ s = "SYNC1" /\ i = 0
                /\ \/ state[g] = "SYNC1" /\ ByteValue(b) # "A5"
                   \/ state[g] = "SYNC2" /\ ByteValue(b) # "5A"
                   \/ state[g] = "LEN" /\ ~IsLength(b)
    BY <2>1
  <2>4. /\ state'[g] = s /\ frame_index'[g] = i /\ frame_buf'[g] = 0
        /\ ParserTypes'
        /\ \A h \in Gps \ {g} :
             /\ state'[h] = state[h] /\ frame_index'[h] = frame_index[h]
             /\ frame_buf'[h] = frame_buf[h] /\ good'[h] = good[h]
    BY <1>5, <1>6, <2>1, <2>3 DEF ParserTypes
  <2>5. IF Fits(g, b) THEN Taken(g, b) ELSE Dropped(g)
    <3>1. CASE s = "SYNC1" /\ i = 0
      BY <2>3, <2>4, <3>1 DEF Fits, Dropped
    <3>2. CASE ~(s = "SYNC1" /\ i = 0)
      <4>1. frame_buf'[g] = With(frame_buf[g], frame_index[g], b)
        BY <2>2, <2>3, <2>4, <3>2 DEF With, HeaderPlaces
      <4>2. /\ frame_index'[g] = frame_index[g] + 1 /\ Fits(g, b)
            /\ \/ state[g] = "SYNC1" /\ state'[g] = "SYNC2" /\ ByteValue(b) = "A5"
               \/ state[g] = "SYNC2" /\ state'[g] = "LEN" /\ ByteValue(b) = "5A"
               \/ state[g] = "LEN" /\ state'[g] = "DATA" /\ IsLength(b)
        <5>1. CASE state[g] = "SYNC1"
          BY <2>2, <2>3, <2>4, <3>2, <5>1 DEF Fits
        <5>2. CASE state[g] = "SYNC2"
          BY <2>2, <2>3, <2>4, <3>2, <5>2 DEF Fits
        <5>3. CASE state[g] = "LEN"
          BY <2>2, <2>3, <2>4, <3>2, <5>3 DEF Fits
        <5>4. QED
          BY <2>3, <5>1, <5>2, <5>3
      <4>3. QED
        BY <4>1, <4>2 DEF Taken
    <3>3. QED
      BY <3>1, <3>2
  <2>6. state[g] # "DATA" /\ good'[g] = good[g]
    BY <2>1, <2>3
  <2>7. QED
    BY <1>5, <2>4, <2>5, <2>6 DEF counted
<1>8. CASE ParseData(g, b)
  <2>1. state[g] = "DATA" /\ frame_index[g] + 1 \in Nat
    BY <1>8 DEF ParseData, ParserTypes
  <2>2. CASE frame_index[g] + 1 < GPS_FRAME_TOTAL
    BY <1>3, <1>5, <1>6, <1>4, <1>8, <2>1, <2>2
    DEF ParseData, ParserTypes, Fits, Taken, counted
  <2>3. CASE ~(frame_index[g] + 1 < GPS_FRAME_TOTAL)
    <3>1. /\ ParseCompleteFrame(g, With(frame_buf[g], frame_index[g], b)) /\ Seek(g, "SYNC1", 0, 0)
      BY <1>8, <2>1, <2>3, <1>4 DEF ParseData, LeaveFrame
    <3>2. QED
      BY <1>3, <1>5, <1>6, <2>1, <2>3, <3>1
      DEF ParserTypes, Fits, Dropped, ParseCompleteFrame, counted
  <2>4. QED
    BY <2>2, <2>3
<1>9. QED
  BY <1>7, <1>8 DEF ParseByte

\* The value of a byte of g, by its number.
LEMMA OwnValue ==
  ASSUME NEW g \in Gps, NEW b \in LineBytes, Own(g, b)
  PROVE  ByteValue(b) = ValueOf(g, b.num) /\ (IsLength(b) <=> ValueOf(g, b.num) = "length")
BY DEF Own, LineBytes, ByteValue, IsLength, ValueOf, FrameOf, Place, In, At

\* The header that a parser has gathered, when it takes one more byte.
LEMMA HeaderKeeps ==
  ASSUME GpsBytesAssumption, ParserTypes, NEW g \in Gps, ParserOf(g), NEW b \in LineBytes,
         Own(g, b), b.num > gps_parsed[g], ParseByte(g, b), frame_index'[g] \in 1..run'[g]
  PROVE  HeaderInv(g)'
<1> DEFINE n == b.num
           p == gps_parsed[g]
           i == frame_index[g]
           q == p - i + 1
<1>1. /\ GPS_FRAME_TOTAL \in Nat /\ GPS_FRAME_TOTAL > 3
      /\ n \in Nat \ {0} /\ p \in Nat /\ i \in Nat /\ run[g] \in Nat /\ n > p
      /\ i < GPS_FRAME_TOTAL
  BY DEF GpsBytesAssumption, LineBytes, ParserTypes, ParserOf
<1>2. /\ gps_parsed'[g] = n
      /\ run'[g] = IF n # p + 1 THEN 1
                   ELSE IF run[g] < 2 * GPS_FRAME_TOTAL THEN run[g] + 1 ELSE run[g]
      /\ frame_index'[g] # 0
  BY <1>1, ParseFacts
<1>3. Fits(g, b) /\ Taken(g, b)
  BY <1>2, ParseFacts DEF Dropped
<1>4. frame_index'[g] = i + 1 /\ Gathered(g)' = n - i
  BY <1>1, <1>2, <1>3 DEF Taken, Gathered
<1>5. i > 2 => frame_buf'[g] = IF At(n) = i /\ (i = 3 \/ frame_buf[g] = In(n)) THEN In(n) ELSE 0
  BY <1>1, <1>3 DEF Taken, With, HeaderPlaces, Place, FrameOf, At, In
<1>6. /\ state[g] = "SYNC1" <=> i = 0
      /\ state[g] = "SYNC2" <=> i = 1
      /\ state[g] = "LEN" <=> i = 2
  BY DEF ParserOf
<1>7. CASE i = 0
  <2>1. Gathered(g)' = n /\ ValueOf(g, n) = "A5"
    BY <1>1, <1>3, <1>4, <1>6, <1>7, OwnValue DEF Taken
  <2>2. QED
    BY <1>2, <1>4, <1>7, <2>1 DEF HeaderInv, ValueOf, Value, HeaderFree, At, In
<1>8. CASE i > 0
  <2>1. n = p + 1 /\ i \in 1..run[g]
    BY <1>1, <1>2, <1>4, <1>8
  <2>2. HeaderInv(g) /\ Gathered(g) = q /\ q \in Nat /\ Gathered(g)' = q
    <3>1. HeaderInv(g)
      BY <2>1 DEF ParserOf
    <3>2. run[g] <= p
      BY DEF ParserOf
    <3>3. QED
      BY <1>1, <1>4, <2>1, <3>1, <3>2 DEF Gathered
  <2>3. q # 0
    <3>1. run[g] <= p
      BY DEF ParserOf
    <3>2. QED
      BY <1>1, <2>1, <3>1
  <2> HIDE DEF q
  <2>4. /\ ValueOf(g, q) = "A5"
        /\ i >= 2 => ValueOf(g, q + 1) = "5A"
        /\ i >= 3 /\ HeaderFree(g, In(q)) => At(q) = 0
        /\ At(q) = 0 => At(p) = i - 1 /\ (i > 3 => frame_buf[g] = In(p))
    BY <2>2 DEF HeaderInv
  <2>5. i + 1 >= 2 => ValueOf(g, q + 1) = "5A"
    <3>1. CASE i = 1
      <4>1. q + 1 = n
        BY <1>1, <2>1, <3>1 DEF q
      <4>2. QED
        BY <1>3, <1>6, <3>1, <4>1, OwnValue DEF Taken
    <3>2. QED
      BY <1>1, <1>8, <2>4, <3>1
  <2>6. i + 1 >= 3 /\ HeaderFree(g, In(q)) => At(q) = 0
    <3>1. CASE i = 2
      <4>1. q + 2 = n
        BY <1>1, <2>1, <3>1 DEF q
      <4>2. ValueOf(g, q + 2) = "length"
        BY <1>3, <1>6, <3>1, <4>1, OwnValue DEF Taken
      <4>3. QED
        BY <2>2, <2>3, <2>4, <3>1, <4>2, HeaderIsFirst
    <3>2. QED
      BY <1>1, <2>4, <3>1
  <2>7. ASSUME At(q) = 0
        PROVE  At(n) = i /\ (i + 1 > 3 => frame_buf'[g] = In(n))
    <3>1. At(p) = i - 1 /\ (i > 3 => frame_buf[g] = In(p)) /\ At(p) # GPS_FRAME_TOTAL - 1
      BY <1>1, <2>4, <2>7
    <3>2. p \in Nat \ {0}
      BY <1>1, <2>1, <2>2, <2>3 DEF q
    <3>3. At(n) = At(p) + 1 /\ In(n) = In(p)
      BY <2>1, <3>1, <3>2, NextPlace
    <3>4. QED
      BY <1>1, <1>5, <3>1, <3>3
  <2>8. /\ ValueOf(g, Gathered(g)') = "A5"
        /\ frame_index'[g] >= 2 => ValueOf(g, Gathered(g)' + 1) = "5A"
        /\ frame_index'[g] >= 3 /\ HeaderFree(g, In(Gathered(g)')) => At(Gathered(g)') = 0
        /\ At(Gathered(g)') = 0 =>
             /\ At(gps_parsed'[g]) = frame_index'[g] - 1
             /\ frame_index'[g] > 3 => frame_buf'[g] = In(gps_parsed'[g])
    BY <1>1, <1>2, <1>4, <2>2, <2>4, <2>5, <2>6, <2>7
  <2>9. QED
    BY <2>8 DEF HeaderInv, ValueOf, Value, HeaderFree, At, In
<1>9. QED
  BY <1>1, <1>7, <1>8

\* Each parser keeps what it knows, whatever bytes are missing.
LEMMA ParserKeeps ==
  ASSUME GpsBytesAssumption, ParserTypes, NEW g \in Gps, ParserOf(g), NEW b \in LineBytes,
         Own(g, b), b.num > gps_parsed[g], ParseByte(g, b)
  PROVE  ParserOf(g)'
<1> DEFINE n == b.num
           p == gps_parsed[g]
           i == frame_index[g]
<1>1. /\ GPS_FRAME_TOTAL \in Nat /\ GPS_FRAME_TOTAL > 3
      /\ n \in Nat \ {0} /\ p \in Nat /\ i \in Nat /\ run[g] \in Nat /\ n > p
      /\ i < GPS_FRAME_TOTAL /\ run[g] <= 2 * GPS_FRAME_TOTAL /\ run[g] <= p
  BY DEF GpsBytesAssumption, LineBytes, ParserTypes, ParserOf
<1>2. /\ gps_parsed'[g] = n
      /\ run'[g] = IF n # p + 1 THEN 1
                   ELSE IF run[g] < 2 * GPS_FRAME_TOTAL THEN run[g] + 1 ELSE run[g]
      /\ IF Fits(g, b) THEN Taken(g, b) ELSE Dropped(g)
  BY ParseFacts
<1>3. /\ state[g] = "SYNC1" <=> i = 0
      /\ state[g] = "SYNC2" <=> i = 1
      /\ state[g] = "LEN" <=> i = 2
      /\ state[g] \in {"SYNC1", "SYNC2", "LEN", "DATA"}
  BY DEF ParserOf, ParserTypes
<1>4. /\ state'[g] = "SYNC1" <=> frame_index'[g] = 0
      /\ state'[g] = "SYNC2" <=> frame_index'[g] = 1
      /\ state'[g] = "LEN" <=> frame_index'[g] = 2
      /\ frame_index'[g] < GPS_FRAME_TOTAL
  <2>1. CASE Fits(g, b)
    <3>1. Taken(g, b)
      BY <1>2, <2>1
    <3>2. QED
      BY <1>1, <1>3, <3>1 DEF Taken
  <2>2. CASE ~Fits(g, b)
    BY <1>1, <1>2, <2>2 DEF Dropped
  <2>3. QED
    BY <2>1, <2>2
<1>5. run'[g] <= 2 * GPS_FRAME_TOTAL /\ run'[g] <= gps_parsed'[g]
  BY <1>1, <1>2
<1>6. frame_index'[g] \in 1..run'[g] => HeaderInv(g)'
  BY HeaderKeeps
<1>7. ASSUME run'[g] > GPS_FRAME_TOTAL + At(n), HeaderFree(g, In(n) - 1)
      PROVE  IF At(n) = GPS_FRAME_TOTAL - 1
             THEN frame_index'[g] = 0 /\ good'[g] = In(n)
             ELSE frame_index'[g] = At(n) + 1 /\ At(Gathered(g)') = 0
  <2>0. At(n) \in Places /\ At(n) \in Nat /\ At(n) < GPS_FRAME_TOTAL
    <3>1. At(n) \in Places
      BY <1>1, PlaceFacts
    <3>2. QED
      BY <1>1, <3>1 DEF Places
  <2>1. n = p + 1 /\ run[g] >= GPS_FRAME_TOTAL + At(n)
    BY <1>1, <1>2, <1>7, <2>0
  <2>2. /\ i = At(n)
        /\ At(n) > 0 => At(Gathered(g)) = 0
        /\ At(n) > 3 => frame_buf[g] = In(n)
    BY <1>1, <1>7, <2>1, KeepsStep
  <2>3. In(n) \in Nat \ {0}
    BY <1>1, PlaceFacts
  <2>4. At(n) > 2 => With(frame_buf[g], i, b) = In(n)
    <3>1. Place(b) = At(n) /\ FrameOf(b) = In(n)
      BY DEF Place, FrameOf, At, In
    <3>2. QED
      BY <1>1, <2>0, <2>2, <3>1 DEF With, HeaderPlaces
  <2>5. /\ At(n) = 0 => ValueOf(g, n) = "A5"
        /\ At(n) = 1 => ValueOf(g, n) = "5A"
        /\ At(n) = 2 => ValueOf(g, n) = "length"
    BY DEF ValueOf, Value, HeaderPlaces, FrameHeader
  <2>6. CASE At(n) = GPS_FRAME_TOTAL - 1
    <3>1. state[g] = "DATA" /\ ~Fits(g, b)
      <4>1. i > 2 /\ ~(i + 1 < GPS_FRAME_TOTAL)
        BY <1>1, <2>2, <2>6
      <4>2. state[g] = "DATA"
        BY <1>3, <4>1
      <4>3. QED
        BY <4>1, <4>2 DEF Fits
    <3>2. good'[g] = In(n)
      BY <1>1, <2>3, <2>4, <2>6, <3>1, ParseFacts
    <3>3. QED
      BY <1>2, <2>6, <3>1, <3>2 DEF Dropped
  <2>7. CASE At(n) # GPS_FRAME_TOTAL - 1
    <3>1. Fits(g, b)
      <4>1. i + 1 < GPS_FRAME_TOTAL
        BY <1>1, <2>0, <2>2, <2>7
      <4>2. CASE state[g] = "DATA"
        BY <4>1, <4>2 DEF Fits
      <4>3. CASE state[g] # "DATA"
        <5>1. ByteValue(b) = ValueOf(g, n) /\ (IsLength(b) <=> ValueOf(g, n) = "length")
          BY OwnValue
        <5>2. CASE i = 0
          BY <1>3, <2>2, <2>5, <5>1, <5>2 DEF Fits
        <5>3. CASE i = 1
          BY <1>3, <2>2, <2>5, <5>1, <5>3 DEF Fits
        <5>4. CASE i = 2
          BY <1>3, <2>2, <2>5, <5>1, <5>4 DEF Fits
        <5>5. QED
          BY <1>3, <4>3, <5>2, <5>3, <5>4
      <4>4. QED
        BY <4>2, <4>3
    <3>2. frame_index'[g] = i + 1
      BY <1>2, <3>1 DEF Taken
    <3>3. At(Gathered(g)') = 0
      <4>1. Gathered(g)' = n - i
        BY <1>1, <1>2, <3>2 DEF Gathered
      <4>2. CASE i = 0
        <5>1. Gathered(g)' = n
          BY <1>1, <4>1, <4>2
        <5>2. QED
          BY <2>2, <4>2, <5>1
      <4>3. CASE i # 0
        <5>1. Gathered(g) = n - i
          BY <1>1, <2>1 DEF Gathered
        <5>2. QED
          BY <1>1, <2>0, <2>2, <4>1, <4>3, <5>1
      <4>4. QED
        BY <4>2, <4>3
    <3>4. QED
      BY <2>2, <2>7, <3>2, <3>3
  <2>8. QED
    BY <2>6, <2>7
<1>8. (run'[g] > GPS_FRAME_TOTAL + At(gps_parsed'[g]) /\ HeaderFree(g, In(gps_parsed'[g]) - 1)) =>
        IF At(gps_parsed'[g]) = GPS_FRAME_TOTAL - 1
        THEN frame_index'[g] = 0 /\ good'[g] = In(gps_parsed'[g])
        ELSE frame_index'[g] = At(gps_parsed'[g]) + 1 /\ At(Gathered(g)') = 0
  BY <1>2, <1>7
<1>9. QED
  BY <1>4, <1>5, <1>6, <1>8 DEF ParserOf, HeaderFree, Value, At, In

\* A byte that is not of its receiver ends what the parser has gathered in a row.
LEMMA StrayKeeps ==
  ASSUME GpsBytesAssumption, ParserTypes, NEW g \in Gps, ParserOf(g), NEW b \in LineBytes,
         ~Own(g, b), gps_parsed[g] = 0, ParseByte(g, b)
  PROVE  ParserOf(g)'
<1>1. /\ GPS_FRAME_TOTAL \in Nat /\ GPS_FRAME_TOTAL > 3
      /\ frame_index[g] \in Nat /\ frame_index[g] < GPS_FRAME_TOTAL
  BY DEF GpsBytesAssumption, ParserTypes, ParserOf
<1>2. /\ gps_parsed'[g] = 0 /\ run'[g] = 0
      /\ IF Fits(g, b) THEN Taken(g, b) ELSE Dropped(g)
  BY ParseFacts
<1>3. /\ state[g] = "SYNC1" <=> frame_index[g] = 0
      /\ state[g] = "SYNC2" <=> frame_index[g] = 1
      /\ state[g] = "LEN" <=> frame_index[g] = 2
      /\ state[g] \in {"SYNC1", "SYNC2", "LEN", "DATA"}
  BY DEF ParserOf, ParserTypes
<1>4. /\ state'[g] = "SYNC1" <=> frame_index'[g] = 0
      /\ state'[g] = "SYNC2" <=> frame_index'[g] = 1
      /\ state'[g] = "LEN" <=> frame_index'[g] = 2
      /\ frame_index'[g] < GPS_FRAME_TOTAL
  <2>1. CASE Fits(g, b)
    <3>1. Taken(g, b)
      BY <1>2, <2>1
    <3>2. QED
      BY <1>1, <1>3, <3>1 DEF Taken
  <2>2. CASE ~Fits(g, b)
    BY <1>1, <1>2, <2>2 DEF Dropped
  <2>3. QED
    BY <2>1, <2>2
<1>5. At(0) \in Nat
  BY <1>1, SMTT(30) DEF At
<1>6. ~(run'[g] > GPS_FRAME_TOTAL + At(gps_parsed'[g]))
  BY <1>1, <1>2, <1>5
<1>7. run'[g] <= 2 * GPS_FRAME_TOTAL /\ run'[g] <= gps_parsed'[g] /\ 1..run'[g] = {}
  BY <1>1, <1>2
<1>8. QED
  BY <1>4, <1>6, <1>7 DEF ParserOf, At

LEMMA GpsInitHolds == ASSUME GpsBytesAssumption PROVE LineInit => GpsInv
<1> SUFFICES ASSUME LineInit PROVE GpsInv
  OBVIOUS
<1>1. /\ RX_BUF_SIZE \in Nat /\ RX_BUF_SIZE > 1 /\ 0 \in Slots
      /\ GPS_FRAME_TOTAL \in Nat /\ GPS_FRAME_TOTAL > 3
  BY DEF GpsBytesAssumption, Slots
<1>2. LineTypes /\ ParserTypes
  BY <1>1 DEF LineInit, SciInit, LineTypes, ParserTypes, LineBytes, Gps, Turns
<1>3. ServedInv
  <2>1. ASSUME NEW g \in Gps PROVE ServedOf(g)
    <3>1. /\ rx_data[g] = FALSE /\ isr = <<>> /\ isr # <<g>> /\ rx_head[g] = rx_tail[g]
          /\ gps_parsed[g] = 0 /\ strays[g] = 0 /\ rx_byte.num = 0
          /\ turn.at = "arm" /\ turn.gps = 1 /\ turn # [gps |-> g, at |-> "arming"]
      BY DEF LineInit, SciInit
    <3>2. Silent(g) /\ Unarmed(g)
      BY <3>1 DEF Silent, Own, Unarmed, Gps
    <3>3. QED
      BY <3>1, <3>2 DEF ServedOf
  <2>2. QED
    BY <2>1 DEF ServedInv
<1>4. RingInv
  <2>1. ASSUME NEW g \in Gps PROVE RingOf(g)
    <3>1. /\ rx_head[g] = 0 /\ rx_tail[g] = 0 /\ next[g] = 1 /\ isr # <<g>>
          /\ gps_parsed[g] = 0 /\ strays[g] = 0 /\ turn.at # "take"
      BY DEF LineInit
    <3>2. Held(g) = 0 /\ Coming(g) = 1
      BY <1>1, <3>1, HeldFacts DEF Coming
    <3>3. \A k \in Nat : ~(k < 0)
      OBVIOUS
    <3>4. QED
      BY <3>1, <3>2, <3>3 DEF RingOf
  <2>2. QED
    BY <2>1 DEF RingInv
<1>5. ParserInv
  <2>1. ASSUME NEW g \in Gps PROVE ParserOf(g)
    <3>1. state[g] = "SYNC1" /\ frame_index[g] = 0 /\ run[g] = 0 /\ gps_parsed[g] = 0
      BY DEF LineInit
    <3>2. At(0) \in Nat
      BY <1>1, SMTT(30) DEF At
    <3>3. QED
      BY <1>1, <3>1, <3>2 DEF ParserOf
  <2>2. QED
    BY <2>1 DEF ParserInv
<1>6. QED
  BY <1>2, <1>3, <1>4, <1>5 DEF GpsInv

\* Where the parsers are given no byte, what is known of them stays true.
LEMMA ParsersStay ==
  ASSUME ParserInv, UNCHANGED parsers
  PROVE  ParserInv'
BY DEF ParserInv, ParserOf, HeaderInv, Gathered, ValueOf, Value, HeaderFree, At, In, parsers

\* Where the rings are not touched, what is known of them stays true.
LEMMA RingStays ==
  ASSUME LineTypes, ParserTypes, NEW g \in Gps, RingOf(g),
         UNCHANGED <<rings, gps_parsed, strays>>,
         Coming(g)' \in Int, Coming(g)' >= Coming(g),
         turn' = [gps |-> g, at |-> "take"] => turn' = turn /\ popped' = popped
  PROVE  RingOf(g)'
<1>1. /\ Held(g)' = Held(g) /\ gps_parsed'[g] = gps_parsed[g] /\ strays'[g] = strays[g]
      /\ \A k : Kth(g, k)' = Kth(g, k) /\ Before(g, k)' = Before(g, k)
  BY DEF Held, Kth, Before, Own, rings
<1>2. gps_parsed[g] \in Nat /\ Coming(g) \in Int
  BY DEF ParserTypes, LineTypes, Coming
<1>3. gps_parsed[g] < Coming(g)'
  BY <1>2 DEF RingOf
<1>4. ASSUME NEW k \in Nat, HeldByte(g, k)
      PROVE  HeldByte(g, k)'
  <2>1. Kth(g, k).num \in Nat
    BY <1>4 DEF HeldByte, LineBytes
  <2>2. Kth(g, k).num < Coming(g) => Kth(g, k).num < Coming(g)'
    BY <1>2, <2>1
  <2>3. Own(g, Kth(g, k))' = Own(g, Kth(g, k))
    BY <1>1 DEF Own
  <2>4. QED
    BY <1>1, <1>4, <2>2, <2>3 DEF HeldByte, LineBytes
<1>5. QED
  BY <1>1, <1>3, <1>4 DEF RingOf

\* A byte comes.
LEMMA StoreKeeps ==
  ASSUME GpsInv, NEW g \in Gps, StoreByte(g)
  PROVE  GpsInv'
<1>1. /\ isr = <<>> /\ turn.at # "aborted" /\ next[g] \in Nat /\ next[g] > 0
      /\ UNCHANGED <<rings, popped, parsers, strays>>
      /\ next' = [next EXCEPT ![g] = @ + 1]
      /\ next'[g] = next[g] + 1 /\ \A h \in Gps : h # g => next'[h] = next[h]
  BY DEF StoreByte, IrqEnabled, GpsInv, LineTypes
<1>2. \/ /\ rx_byte' = IF rx_data[g] THEN [gps |-> g, num |-> next[g]] ELSE rx_byte
         /\ rx_length' = [rx_length EXCEPT ![g] = 0]
         /\ rx_data' = [rx_data EXCEPT ![g] = FALSE]
         /\ isr' = <<g>> /\ turn' = turn
      \/ /\ rx_byte' = rx_byte /\ rx_length' = rx_length /\ rx_data' = rx_data /\ isr' = isr
         /\ rx_data[g] = FALSE
         /\ turn' = turn \/ turn' = [turn EXCEPT !.at = "aborted"]
  <2>1. rx_length[g] \in {0, 1} /\ rx_data[g] \in BOOLEAN /\ (rx_data[g] => rx_length[g] = 1)
    BY DEF GpsInv, LineTypes, ServedInv, ServedOf
  <2>2. CASE rx_length[g] = 0
    BY <1>1, <2>1, <2>2 DEF StoreByte, line
  <2>3. CASE rx_length[g] = 1 /\ rx_data[g]
    BY <1>1, <2>1, <2>3 DEF StoreByte, PutByte
  <2>4. CASE rx_length[g] = 1 /\ ~rx_data[g]
    BY <1>1, <2>1, <2>4 DEF StoreByte, PutByte, PutNowhere, line
  <2>5. QED
    BY <2>1, <2>2, <2>3, <2>4
<1>3. LineTypes' /\ ParserTypes'
  <2>1. /\ rx_byte \in LineBytes /\ rx_length \in [Gps -> {0, 1}] /\ next \in [Gps -> Nat \ {0}]
        /\ rx_data \in [Gps -> BOOLEAN] /\ turn \in [gps : Gps, at : Turns]
    BY DEF GpsInv, LineTypes
  <2>2. rx_byte' \in LineBytes
    BY <1>1, <1>2, <2>1 DEF LineBytes
  <2>3. rx_length' \in [Gps -> {0, 1}] /\ rx_data' \in [Gps -> BOOLEAN]
    BY <1>2, <2>1
  <2>4. next' \in [Gps -> Nat \ {0}]
    BY <1>1, <2>1
  <2>5. isr' = <<>> \/ \E h \in Gps : isr' = <<h>>
    BY <1>1, <1>2
  <2>6. turn' \in [gps : Gps, at : Turns]
    BY <1>2, <2>1 DEF Turns
  <2>7. QED
    BY <1>1, <2>2, <2>3, <2>4, <2>5, <2>6 DEF GpsInv, LineTypes, ParserTypes, rings, parsers
<1>4. ServedInv'
  <2>1. ASSUME NEW h \in Gps PROVE ServedOf(h)'
    <3>1. /\ ServedOf(h) /\ isr # <<h>> /\ rx_data \in [Gps -> BOOLEAN]
          /\ rx_length \in [Gps -> {0, 1}] /\ turn \in [gps : Gps, at : Turns]
      BY <1>1 DEF GpsInv, ServedInv, LineTypes
    <3>2. /\ rx_head'[h] = rx_head[h] /\ rx_tail'[h] = rx_tail[h]
          /\ gps_parsed'[h] = gps_parsed[h] /\ strays'[h] = strays[h]
      BY <1>1 DEF rings, parsers
    <3>3. CASE isr' = <<g>>
      <4>1. /\ rx_byte' = IF rx_data[g] THEN [gps |-> g, num |-> next[g]] ELSE rx_byte
            /\ rx_length' = [rx_length EXCEPT ![g] = 0]
            /\ rx_data' = [rx_data EXCEPT ![g] = FALSE]
            /\ turn' = turn
        BY <1>1, <1>2, <3>3
      <4>2. Silent(h) /\ ~Own(h, rx_byte') => Silent(h)'
        BY <3>2 DEF Silent, Own
      <4>3. CASE h = g
        <5>1. rx_data[g] => rx_byte' = [gps |-> g, num |-> next'[g] - 1]
          BY <1>1, <4>1
        <5>2. ~rx_data[g] => Silent(g)'
          BY <3>1, <4>1, <4>2, <4>3 DEF ServedOf, Silent
        <5>3. rx_length'[g] = 0 /\ rx_data'[g] = FALSE /\ next'[g] > 1
          BY <1>1, <3>1, <4>1
        <5>4. QED
          BY <3>3, <4>3, <5>1, <5>2, <5>3 DEF ServedOf
      <4>4. CASE h # g
        <5>1. /\ isr' # <<h>> /\ rx_length'[h] = rx_length[h] /\ rx_data'[h] = rx_data[h]
              /\ (Unarmed(h)' <=> Unarmed(h))
          BY <3>1, <3>3, <4>1, <4>4 DEF Unarmed
        <5>2. Silent(h) => Silent(h)'
          BY <4>1, <4>2, <4>4 DEF Silent, Own
        <5>3. QED
          BY <3>1, <4>1, <5>1, <5>2 DEF ServedOf
      <4>5. QED
        BY <4>3, <4>4
    <3>4. CASE isr' # <<g>>
      <4>1. /\ rx_byte' = rx_byte /\ rx_length' = rx_length /\ rx_data' = rx_data /\ isr' = isr
            /\ turn' = turn \/ turn' = [turn EXCEPT !.at = "aborted"]
        BY <1>2, <3>4
      <4>2. turn' = turn \/ turn'.at = "aborted"
        BY <3>1, <4>1
      <4>3. Silent(h)' <=> Silent(h)
        BY <3>2, <4>1 DEF Silent, Own
      <4>4. turn' = turn => (Unarmed(h)' <=> Unarmed(h))
        BY DEF Unarmed
      <4>5. QED
        BY <3>1, <4>1, <4>2, <4>3, <4>4 DEF ServedOf
    <3>5. QED
      BY <3>3, <3>4
  <2>2. QED
    BY <2>1 DEF ServedInv
<1>5. RingInv'
  <2>1. ASSUME NEW h \in Gps PROVE RingOf(h)'
    <3>1. LineTypes /\ ParserTypes /\ RingOf(h)
      BY DEF GpsInv, RingInv
    <3>2. Coming(h) = next[h] /\ next[h] \in Nat
      BY <1>1, <3>1 DEF Coming, LineTypes
    <3>3. Coming(h)' \in Int /\ Coming(h)' >= Coming(h)
      <4>1. CASE h = g
        BY <1>1, <3>2, <4>1 DEF Coming
      <4>2. CASE h # g
        <5>1. isr' # <<h>> /\ next'[h] = next[h]
          BY <1>1, <1>2, <4>2
        <5>2. QED
          BY <3>2, <5>1 DEF Coming
      <4>3. QED
        BY <4>1, <4>2
    <3>4. UNCHANGED <<rings, gps_parsed, strays, popped>>
      BY <1>1 DEF parsers
    <3>5. turn' = [gps |-> h, at |-> "take"] => turn' = turn
      <4>1. turn \in [gps : Gps, at : Turns]
        BY <3>1 DEF LineTypes
      <4>2. QED
        BY <1>2, <4>1
    <3>6. QED
      BY <3>1, <3>3, <3>4, <3>5, RingStays
  <2>2. QED
    BY <2>1 DEF RingInv
<1>6. ParserInv'
  BY <1>1, ParsersStay DEF GpsInv
<1>7. QED
  BY <1>3, <1>4, <1>5, <1>6 DEF GpsInv

\* KavachInit tells a driver to wait for its first byte.
LEMMA ArmKeeps ==
  ASSUME GpsInv, StartReceiving
  PROVE  GpsInv'
<1> DEFINE a == turn.gps
<1>1. /\ isr = <<>> /\ a \in Gps /\ turn \in [gps : Gps, at : Turns]
      /\ \/ /\ turn.at = "arm" /\ rx_length' = [rx_length EXCEPT ![a] = 1] /\ rx_data' = rx_data
            /\ turn' = [turn EXCEPT !.at = "arming"]
         \/ /\ turn.at = "arming" /\ rx_data' = [rx_data EXCEPT ![a] = TRUE]
            /\ rx_length' = rx_length
            /\ turn' = IF a = 1 THEN [gps |-> 2, at |-> "arm"] ELSE [gps |-> 1, at |-> "look"]
      /\ rx_byte' = rx_byte /\ isr' = isr /\ popped' = popped /\ next' = next
      /\ UNCHANGED <<rings, parsers, strays>>
  BY DEF StartReceiving, SetLength, SetData, GpsInv, LineTypes
<1>2. /\ turn = [gps |-> a, at |-> turn.at] /\ turn' \in [gps : Gps, at : Turns]
      /\ turn'.at # "take"
      /\ turn.at = "arm" => turn'.gps = a /\ turn'.at = "arming"
      /\ turn.at = "arming" => turn'.at # "arming"
  BY <1>1 DEF Gps, Turns
<1>3. LineTypes' /\ ParserTypes'
  <2>1. rx_length' \in [Gps -> {0, 1}] /\ rx_data' \in [Gps -> BOOLEAN]
    BY <1>1 DEF GpsInv, LineTypes
  <2>2. QED
    BY <1>1, <1>2, <2>1 DEF GpsInv, LineTypes, ParserTypes, rings, parsers
<1>4. ServedInv'
  <2>1. ASSUME NEW h \in Gps PROVE ServedOf(h)'
    <3>1. /\ ServedOf(h) /\ isr' # <<h>> /\ isr # <<h>> /\ rx_length \in [Gps -> {0, 1}]
          /\ rx_data \in [Gps -> BOOLEAN]
      BY <1>1 DEF GpsInv, ServedInv, LineTypes
    <3>2. Silent(h)' <=> Silent(h)
      BY <1>1 DEF Silent, Own, rings, parsers
    <3>3. CASE turn.at = "arm"
      <4>1. /\ rx_data' = rx_data /\ rx_length' = [rx_length EXCEPT ![a] = 1]
            /\ turn'.gps = a /\ turn'.at = "arming"
        BY <1>1, <1>2, <3>3
      <4>2. /\ rx_length[h] = 1 => rx_length'[h] = 1
            /\ turn' = [gps |-> h, at |-> "arming"] => rx_length'[h] = 1
        BY <1>1, <3>1, <4>1
      <4>3. Unarmed(h) => Unarmed(h)'
        BY <4>1 DEF Unarmed
      <4>4. QED
        BY <3>1, <3>2, <3>3, <4>1, <4>2, <4>3 DEF ServedOf
    <3>4. CASE turn.at = "arming"
      <4>1. /\ rx_data' = [rx_data EXCEPT ![a] = TRUE] /\ rx_length' = rx_length
            /\ turn' = IF a = 1 THEN [gps |-> 2, at |-> "arm"] ELSE [gps |-> 1, at |-> "look"]
            /\ turn = [gps |-> a, at |-> "arming"]
            /\ turn' # [gps |-> h, at |-> "arming"]
        BY <1>1, <1>2, <3>4
      <4>2. CASE h = a
        BY <3>1, <4>1, <4>2 DEF ServedOf
      <4>3. CASE h # a
        <5>1. rx_data'[h] = rx_data[h]
          BY <3>1, <4>1, <4>3
        <5>2. ~rx_data[h] => Silent(h) /\ a <= h
          BY <3>1, <3>4 DEF ServedOf, Unarmed
        <5>3. a <= h => Unarmed(h)'
          BY <1>1, <4>1, <4>3 DEF Unarmed, Gps
        <5>4. QED
          BY <3>1, <3>2, <4>1, <5>1, <5>2, <5>3 DEF ServedOf
      <4>4. QED
        BY <4>2, <4>3
    <3>5. QED
      BY <1>1, <3>3, <3>4
  <2>2. QED
    BY <2>1 DEF ServedInv
<1>5. RingInv'
  <2>1. ASSUME NEW h \in Gps PROVE RingOf(h)'
    <3>1. LineTypes /\ ParserTypes /\ RingOf(h) /\ Coming(h) \in Int
      BY DEF GpsInv, RingInv, LineTypes, Coming
    <3>2. Coming(h)' = Coming(h) /\ Coming(h)' >= Coming(h)
      BY <1>1, <3>1 DEF Coming
    <3>3. UNCHANGED <<rings, gps_parsed, strays>> /\ turn' # [gps |-> h, at |-> "take"]
      BY <1>1, <1>2 DEF parsers
    <3>4. QED
      BY <3>1, <3>2, <3>3, RingStays
  <2>2. QED
    BY <2>1 DEF RingInv
<1>6. ParserInv'
  BY <1>1, ParsersStay DEF GpsInv
<1>7. QED
  BY <1>3, <1>4, <1>5, <1>6 DEF GpsInv

\* While the main loop runs, both drivers wait.
LEMMA RunsArmed ==
  ASSUME GpsInv, isr = <<>>, turn.at \in {"look", "take"}
  PROVE  \A g \in Gps : rx_data[g] /\ rx_length[g] = 1
<1>1. ASSUME NEW g \in Gps PROVE rx_data[g] /\ rx_length[g] = 1
  <2>1. ServedOf(g) /\ isr # <<g>> /\ ~Unarmed(g)
    BY DEF GpsInv, ServedInv, Unarmed
  <2>2. QED
    BY <2>1 DEF ServedOf
<1>2. QED
  BY <1>1

LEMMA StaysArmed ==
  ASSUME \A g \in Gps : rx_data[g] /\ rx_length[g] = 1, isr = <<>>,
         UNCHANGED <<isr, rx_data, rx_length>>
  PROVE  ServedInv'
<1>1. ASSUME NEW g \in Gps PROVE ServedOf(g)'
  BY DEF ServedOf
<1>2. QED
  BY <1>1 DEF ServedInv

\* The main loop looks for a byte in a ring.
LEMMA LookKeeps ==
  ASSUME GpsBytesAssumption, GpsInv, NEW g \in Gps, RxPopLook(g)
  PROVE  GpsInv'
<1>1. /\ isr = <<>> /\ turn = [gps |-> g, at |-> "look"]
      /\ UNCHANGED <<line, rings, parsers, next, strays>>
      /\ \/ turn' = [gps |-> 3 - g, at |-> "look"]
         \/ /\ turn' = [gps |-> g, at |-> "take"] /\ popped' = <<rx_buf[g][rx_tail[g]]>>
            /\ rx_head[g] # rx_tail[g]
  BY DEF RxPopLook, Running
<1>2. LineTypes' /\ ParserTypes'
  <2>1. turn' \in [gps : Gps, at : Turns]
    BY <1>1 DEF Gps, Turns
  <2>2. QED
    BY <1>1, <2>1 DEF GpsInv, LineTypes, ParserTypes, rings, parsers, line
<1>3. ServedInv'
  BY <1>1, RunsArmed, StaysArmed DEF line
<1>4. RingInv'
  <2>1. ASSUME NEW h \in Gps
        PROVE  /\ Held(h)' = Held(h) /\ \A k : Kth(h, k)' = Kth(h, k)
               /\ \A k : HeldByte(h, k)' <=> HeldByte(h, k)
               /\ gps_parsed'[h] = gps_parsed[h] /\ strays'[h] = strays[h]
               /\ Coming(h)' = Coming(h)
    BY <1>1 DEF Held, Kth, HeldByte, Before, Own, Coming, rings, parsers, line
  <2>2. ASSUME NEW h \in Gps, turn' = [gps |-> h, at |-> "take"]
        PROVE  Held(h) > 0 /\ popped' = <<Kth(h, 0)>>
    <3>1. h = g /\ rx_head[g] # rx_tail[g] /\ popped' = <<rx_buf[g][rx_tail[g]]>>
      BY <1>1, <2>2
    <3>2. rx_head[g] \in Slots /\ rx_tail[g] \in Slots
      BY DEF GpsInv, LineTypes
    <3>3. Held(g) \in Slots /\ Held(g) # 0
      BY <3>1, <3>2, HeldFacts
    <3>4. rx_tail[g] + 0 \in Nat /\ rx_tail[g] + 0 < RX_BUF_SIZE /\ rx_tail[g] \in Nat
          /\ RX_BUF_SIZE \in Nat
      BY <3>2 DEF Slots, GpsBytesAssumption
    <3>5. (rx_tail[g] + 0) % RX_BUF_SIZE = rx_tail[g]
      BY <3>4, RingIndex
    <3>6. QED
      BY <3>1, <3>3, <3>5 DEF Kth, Slots
  <2>3. ASSUME NEW h \in Gps PROVE RingOf(h)'
    <3>1. RingOf(h)
      BY DEF GpsInv, RingInv
    <3>2. QED
      BY <2>1, <2>2, <3>1 DEF RingOf
  <2>4. QED
    BY <2>3 DEF RingInv
<1>5. ParserInv'
  BY <1>1, ParsersStay DEF GpsInv
<1>6. QED
  BY <1>2, <1>3, <1>4, <1>5 DEF GpsInv

\* sciNotification: the byte goes behind those of its ring, if there is room,
\* and its driver waits for the next.
LEMMA PushKeeps ==
  ASSUME GpsBytesAssumption, GpsInv, SciNotification
  PROVE  GpsInv'
<1>1. PICK g \in Gps : isr = <<g>>
  BY DEF SciNotification, GpsInv, LineTypes
<1>2. Head(isr) = g /\ Tail(isr) = <<>>
  BY <1>1
<1>3. /\ Push(g) /\ isr' = <<>>
      /\ rx_length' = [rx_length EXCEPT ![g] = 1] /\ rx_data' = [rx_data EXCEPT ![g] = TRUE]
      /\ strays' = [strays EXCEPT ![g] = IF Own(g, rx_byte) THEN @ ELSE @ + 1]
      /\ UNCHANGED <<rx_byte, rx_tail, turn, popped, parsers, next>>
  BY <1>2 DEF SciNotification, SciReceive, SetLength, SetData
<1> DEFINE h == rx_head[g]
           t == rx_tail[g]
           n == Held(g)
<1>4. /\ RX_BUF_SIZE \in Nat /\ RX_BUF_SIZE > 1
      /\ h \in Slots /\ t \in Slots /\ next[g] \in Nat \ {0}
      /\ rx_head \in [Gps -> Slots] /\ rx_buf \in [Gps -> [Slots -> LineBytes \cup {0}]]
      /\ rx_byte \in LineBytes
      /\ strays \in [Gps -> Nat] /\ strays'[g] = IF Own(g, rx_byte) THEN strays[g] ELSE strays[g] + 1
  BY <1>3 DEF GpsBytesAssumption, GpsInv, LineTypes, ParserTypes
<1>5. /\ next[g] > 1
      /\ \/ rx_byte = [gps |-> g, num |-> next[g] - 1]
         \/ rx_head[g] = rx_tail[g] /\ gps_parsed[g] = 0 /\ strays[g] = 0 /\ ~Own(g, rx_byte)
  BY <1>1 DEF GpsInv, ServedInv, ServedOf, Silent
<1>6. \/ /\ After(h) # t
         /\ rx_buf' = [rx_buf EXCEPT ![g][h] = rx_byte]
         /\ rx_head' = [rx_head EXCEPT ![g] = After(h)]
      \/ rx_buf' = rx_buf /\ rx_head' = rx_head
  BY <1>3, <1>4 DEF Push
<1>7. LineTypes' /\ ParserTypes'
  <2>1. rx_head' \in [Gps -> Slots]
    BY <1>4, <1>6, HeldFacts
  <2>2. rx_buf' \in [Gps -> [Slots -> LineBytes \cup {0}]]
    <3>1. [rx_buf[g] EXCEPT ![h] = rx_byte] \in [Slots -> LineBytes \cup {0}]
      BY <1>4
    <3>2. [rx_buf EXCEPT ![g][h] = rx_byte] \in [Gps -> [Slots -> LineBytes \cup {0}]]
      BY <1>4, <3>1
    <3>3. QED
      BY <1>4, <1>6, <3>2
  <2>3. rx_length' \in [Gps -> {0, 1}] /\ rx_data' \in [Gps -> BOOLEAN]
    BY <1>3 DEF GpsInv, LineTypes
  <2>4. strays' \in [Gps -> Nat]
    BY <1>3, <1>4
  <2>5. QED
    BY <1>3, <2>1, <2>2, <2>3, <2>4 DEF GpsInv, LineTypes, ParserTypes, parsers
<1>8. ASSUME NEW x \in Gps, x # g
      PROVE  /\ Held(x)' = Held(x) /\ \A k : Kth(x, k)' = Kth(x, k)
             /\ Coming(x)' = Coming(x) /\ isr # <<x>>
             /\ rx_head'[x] = rx_head[x] /\ strays'[x] = strays[x]
             /\ rx_length'[x] = rx_length[x] /\ rx_data'[x] = rx_data[x]
  <2>1. isr # <<x>> /\ isr' # <<x>>
    BY <1>1, <1>3, <1>8
  <2>2. rx_buf'[x] = rx_buf[x] /\ rx_head'[x] = rx_head[x]
    BY <1>4, <1>6, <1>8
  <2>3. /\ strays'[x] = strays[x]
        /\ rx_length'[x] = rx_length[x] /\ rx_data'[x] = rx_data[x]
    BY <1>3, <1>4, <1>8 DEF GpsInv, LineTypes
  <2>4. QED
    BY <1>3, <2>1, <2>2, <2>3 DEF Held, Kth, Coming
<1>9. ServedInv'
  <2>1. ASSUME NEW x \in Gps PROVE ServedOf(x)'
    <3>1. CASE x = g
      BY <1>3, <3>1 DEF ServedOf, GpsInv, LineTypes
    <3>2. CASE x # g
      <4>1. ServedOf(x) /\ isr' # <<x>> /\ turn' = turn /\ (Unarmed(x)' <=> Unarmed(x))
        BY <1>3 DEF GpsInv, ServedInv, Unarmed
      <4>2. Silent(x)' <=> Silent(x)
        BY <1>3, <1>8, <3>2 DEF Silent, Own, parsers
      <4>3. QED
        BY <1>8, <3>2, <4>1, <4>2 DEF ServedOf
    <3>3. QED
      BY <3>1, <3>2
  <2>2. QED
    BY <2>1 DEF ServedInv
<1>10. Coming(g) = next[g] - 1 /\ Coming(g)' = next[g]
  BY <1>1, <1>3 DEF Coming
<1>11. /\ n \in Slots /\ (t + n) % RX_BUF_SIZE = h
       /\ n = 0 <=> h = t
       /\ \A k \in Nat : k < n =>
            (t + k) % RX_BUF_SIZE \in Slots /\ (t + k) % RX_BUF_SIZE # h
       /\ After(h) # t => (After(h) + RX_BUF_SIZE - t) % RX_BUF_SIZE = n + 1
  BY <1>4, HeldFacts
<1>12. /\ \/ Held(g)' = n
          \/ Held(g)' = n + 1 /\ \A k \in Nat : k = n => Kth(g, k)' = rx_byte
       /\ \A k \in Nat : k < n => Kth(g, k)' = Kth(g, k)
  <2>1. CASE After(h) # t /\ rx_head' = [rx_head EXCEPT ![g] = After(h)]
             /\ rx_buf' = [rx_buf EXCEPT ![g][h] = rx_byte]
    <3>1. /\ rx_head'[g] = After(h) /\ rx_tail' = rx_tail
          /\ rx_buf'[g] = [rx_buf[g] EXCEPT ![h] = rx_byte]
      BY <1>3, <1>4, <2>1
    <3>2. Held(g)' = n + 1
      BY <1>11, <2>1, <3>1 DEF Held
    <3>3. \A k \in Nat : k = n => Kth(g, k)' = rx_byte
      BY <1>4, <1>11, <3>1 DEF Kth
    <3>4. \A k \in Nat : k < n => Kth(g, k)' = Kth(g, k)
      BY <1>4, <1>11, <3>1 DEF Kth
    <3>5. QED
      BY <3>2, <3>3, <3>4
  <2>2. CASE rx_buf' = rx_buf /\ rx_head' = rx_head
    BY <1>3, <2>2 DEF Held, Kth
  <2>3. QED
    BY <1>6, <2>1, <2>2
<1>13. n \in Nat /\ (n > 0 => h # t)
  BY <1>4, <1>11 DEF Slots
<1>14. /\ gps_parsed[g] < Coming(g) /\ gps_parsed' = gps_parsed /\ gps_parsed[g] \in Nat
       /\ strays[g] <= 1 /\ strays[g] \in Nat
       /\ \A k \in Nat : k < n => HeldByte(g, k)
       /\ turn = [gps |-> g, at |-> "take"] => n > 0 /\ popped = <<Kth(g, 0)>>
  BY <1>3 DEF GpsInv, RingInv, RingOf, ParserTypes, parsers
<1>15. /\ rx_byte = [gps |-> g, num |-> next[g] - 1] =>
            Own(g, rx_byte) /\ rx_byte.num = next[g] - 1 /\ strays'[g] = strays[g]
       /\ rx_byte # [gps |-> g, num |-> next[g] - 1] =>
            n = 0 /\ gps_parsed[g] = 0 /\ strays'[g] = 1 /\ ~Own(g, rx_byte)
  BY <1>4, <1>5, <1>11 DEF Own
<1> HIDE DEF n, h, t
<1>16. ASSUME NEW k \in Nat, k <= n
       PROVE  Before(g, k)' = Before(g, k)
  <2>1. k > 0 => k - 1 \in Nat /\ k - 1 < n
    BY <1>13, <1>16
  <2>2. k > 0 => Kth(g, k - 1)' = Kth(g, k - 1)
    BY <1>12, <2>1
  <2>3. QED
    BY <1>14, <2>2 DEF Before, Own
<1>17. ASSUME NEW k \in Nat, k < Held(g)'
       PROVE  HeldByte(g, k)'
  <2>1. CASE k < n
    <3>1. HeldByte(g, k) /\ Kth(g, k)' = Kth(g, k) /\ Before(g, k)' = Before(g, k)
      BY <1>12, <1>13, <1>14, <1>16, <2>1
    <3>2. Kth(g, k).num \in Nat /\ strays'[g] = strays[g]
      BY <1>13, <1>15, <2>1, <3>1 DEF HeldByte, LineBytes
    <3>3. Kth(g, k).num < Coming(g) => Kth(g, k).num < Coming(g)'
      BY <1>4, <1>10, <3>2
    <3>4. QED
      BY <1>14, <3>1, <3>2, <3>3 DEF HeldByte, LineBytes, Own
  <2>2. CASE ~(k < n)
    <3>1. k = n /\ Kth(g, k)' = rx_byte /\ Before(g, k)' = Before(g, k)
      BY <1>12, <1>13, <1>16, <1>17, <2>2
    <3>2. CASE rx_byte = [gps |-> g, num |-> next[g] - 1]
      <4>1. Before(g, k) < next[g] - 1
        <5>1. ASSUME k > 0, Own(g, Kth(g, k - 1)) PROVE Kth(g, k - 1).num < next[g] - 1
          <6>1. k - 1 \in Nat /\ k - 1 < n
            BY <1>13, <3>1, <5>1
          <6>2. HeldByte(g, k - 1)
            BY <1>14, <6>1
          <6>3. QED
            BY <1>10, <5>1, <6>2 DEF HeldByte
        <5>2. gps_parsed[g] < next[g] - 1
          BY <1>10, <1>14
        <5>3. QED
          BY <5>1, <5>2 DEF Before
      <4>2. rx_byte.num < Coming(g)' /\ rx_byte.num = next[g] - 1
        BY <1>4, <1>10, <1>15, <3>2
      <4>3. QED
        BY <1>4, <1>15, <3>1, <3>2, <4>1, <4>2 DEF HeldByte, LineBytes, Own
    <3>3. CASE rx_byte # [gps |-> g, num |-> next[g] - 1]
      BY <1>4, <1>14, <1>15, <3>1, <3>3 DEF HeldByte, LineBytes, Own
    <3>4. QED
      BY <3>2, <3>3
  <2>3. QED
    BY <2>1, <2>2
<1>18. RingInv'
  <2>1. RingOf(g)'
    <3>1. gps_parsed'[g] < Coming(g)'
      BY <1>4, <1>10, <1>14
    <3>2. strays'[g] <= 1
      BY <1>14, <1>15
    <3>3. turn' = [gps |-> g, at |-> "take"] => Held(g)' > 0 /\ popped' = <<Kth(g, 0)'>>
      BY <1>3, <1>12, <1>13, <1>14
    <3>4. QED
      BY <1>17, <3>1, <3>2, <3>3 DEF RingOf
  <2>2. ASSUME NEW x \in Gps, x # g PROVE RingOf(x)'
    <3>1. RingOf(x) /\ \A k : HeldByte(x, k)' <=> HeldByte(x, k)
      BY <1>8, <1>14, <2>2 DEF GpsInv, RingInv, HeldByte, Before, Own
    <3>2. QED
      BY <1>3, <1>8, <1>14, <2>2, <3>1 DEF RingOf
  <2>3. QED
    BY <2>1, <2>2 DEF RingInv
<1>19. ParserInv'
  BY <1>3, ParsersStay DEF GpsInv
<1>20. QED
  BY <1>7, <1>9, <1>18, <1>19 DEF GpsInv

\* The byte that was read leaves its ring and goes to its parser.
LEMMA TakeKeeps ==
  ASSUME GpsBytesAssumption, GpsInv, NEW g \in Gps, RxPopTake(g)
  PROVE  GpsInv'
<1> DEFINE h == rx_head[g]
           t == rx_tail[g]
           n == Held(g)
           b == Kth(g, 0)
<1>1. /\ isr = <<>> /\ turn = [gps |-> g, at |-> "take"]
      /\ turn' = [gps |-> 3 - g, at |-> "look"]
      /\ rx_tail' = [rx_tail EXCEPT ![g] = After(t)]
      /\ UNCHANGED <<line, rx_buf, rx_head, next>>
      /\ ParseByte(g, popped[1])
  BY DEF RxPopTake, Running, GpsInv, LineTypes
<1>2. RingOf(g) /\ n > 0 /\ popped = <<Kth(g, 0)>>
  BY <1>1 DEF GpsInv, RingInv, RingOf
<1>3. h \in Slots /\ t \in Slots /\ rx_tail \in [Gps -> Slots]
  BY DEF GpsInv, LineTypes
<1>4. /\ n \in Slots /\ After(t) \in Slots /\ h # t
      /\ (h + RX_BUF_SIZE - After(t)) % RX_BUF_SIZE = n - 1
      /\ \A k \in Nat : k < n =>
           (After(t) + k) % RX_BUF_SIZE = (t + (k + 1)) % RX_BUF_SIZE
  BY <1>2, <1>3, HeldFacts
<1>5. n \in Nat
  BY <1>4 DEF Slots
<1>6. \A k \in Nat : k < n => HeldByte(g, k)
  BY <1>2 DEF RingOf
<1>7. /\ HeldByte(g, 0) /\ b \in LineBytes /\ popped[1] = b
      /\ gps_parsed[g] \in Nat /\ gps_parsed[g] < Coming(g)
      /\ strays[g] \in Nat /\ strays[g] <= 1
      /\ Before(g, 0) = gps_parsed[g]
  BY <1>2, <1>5, <1>6 DEF HeldByte, GpsInv, ParserTypes, RingOf, Before
<1>8. ParseByte(g, b)
  BY <1>1, <1>7
<1>9. /\ Held(g)' = n - 1
      /\ \A k \in Nat : k < n => Kth(g, k)' = Kth(g, k + 1)
  <2>1. rx_tail'[g] = After(t) /\ rx_head'[g] = h /\ rx_buf' = rx_buf
    BY <1>1, <1>3
  <2>2. QED
    BY <1>4, <2>1 DEF Held, Kth
<1>10. ASSUME NEW x \in Gps, x # g
       PROVE  Held(x)' = Held(x) /\ \A k : Kth(x, k)' = Kth(x, k)
  <2>1. rx_tail'[x] = rx_tail[x]
    BY <1>1, <1>3, <1>10
  <2>2. QED
    BY <1>1, <2>1 DEF Held, Kth
<1>11. \A x \in Gps : Coming(x)' = Coming(x)
  BY <1>1 DEF Coming, line
<1>12. /\ Own(g, b) => gps_parsed[g] < b.num /\ b.num < Coming(g)
       /\ ~Own(g, b) => gps_parsed[g] = 0
  BY <1>7 DEF HeldByte
<1> HIDE DEF h, t, n, b
<1>13. /\ gps_parsed'[g] = (IF Own(g, b) THEN b.num ELSE gps_parsed[g])
       /\ strays'[g] = (IF Own(g, b) THEN 0 ELSE strays[g]) /\ ParserTypes'
       /\ \A x \in Gps \ {g} :
            /\ state'[x] = state[x] /\ frame_index'[x] = frame_index[x]
            /\ frame_buf'[x] = frame_buf[x] /\ good'[x] = good[x]
            /\ gps_parsed'[x] = gps_parsed[x] /\ run'[x] = run[x] /\ strays'[x] = strays[x]
  <2>1. ParserTypes /\ ParserOf(g)
    BY DEF GpsInv, ParserInv
  <2>2. QED
    BY <1>7, <1>8, <2>1, ParseFacts
<1>14. LineTypes'
  <2>1. rx_tail' \in [Gps -> Slots]
    BY <1>1, <1>3, <1>4
  <2>2. turn' \in [gps : Gps, at : Turns]
    BY <1>1 DEF Gps, Turns
  <2>3. QED
    BY <1>1, <2>1, <2>2 DEF GpsInv, LineTypes, line
<1>15. ServedInv'
  BY <1>1, RunsArmed, StaysArmed DEF line
<1>16. ASSUME NEW k \in Nat, k < n - 1
       PROVE  HeldByte(g, k)'
  <2>1. k < n /\ k + 1 \in Nat /\ k + 1 < n /\ k + 1 # 0 /\ k + 1 > 0 /\ (k + 1) - 1 = k
    BY <1>5, <1>16
  <2>2. Kth(g, k)' = Kth(g, k + 1)
    BY <1>9, <2>1
  <2>3. /\ Kth(g, k + 1) \in LineBytes /\ Own(g, Kth(g, k + 1))
        /\ Kth(g, k + 1).num < Coming(g) /\ Before(g, k + 1) < Kth(g, k + 1).num
    BY <1>6, <2>1 DEF HeldByte
  <2>4. Before(g, k)' = Before(g, k + 1)
    <3>1. CASE k = 0
      <4>1. Before(g, k)' = gps_parsed'[g]
        BY <3>1 DEF Before
      <4>2. Before(g, k + 1) = IF Own(g, b) THEN b.num ELSE gps_parsed[g]
        BY <2>1, <3>1 DEF Before, b
      <4>3. QED
        BY <1>13, <4>1, <4>2
    <3>2. CASE k # 0
      <4>1. k > 0 /\ k - 1 \in Nat /\ k - 1 < n /\ (k - 1) + 1 = k
        BY <1>5, <2>1, <3>2
      <4>2. Kth(g, k - 1)' = Kth(g, k)
        BY <1>9, <4>1
      <4>3. Own(g, Kth(g, k))
        BY <1>6, <2>1, <3>2 DEF HeldByte
      <4>4. Before(g, k + 1) = Kth(g, k).num
        BY <2>1, <4>3 DEF Before
      <4>5. Before(g, k)' = Kth(g, k).num
        BY <4>1, <4>2, <4>3 DEF Before, Own
      <4>6. QED
        BY <4>4, <4>5
    <3>3. QED
      BY <3>1, <3>2
  <2>5. QED
    BY <1>11, <2>2, <2>3, <2>4 DEF HeldByte, LineBytes, Own
<1>17. RingInv'
  <2>1. RingOf(g)'
    <3>1. gps_parsed'[g] < Coming(g)' /\ strays'[g] <= 1
      BY <1>7, <1>11, <1>12, <1>13
    <3>2. QED
      BY <1>1, <1>9, <1>16, <3>1 DEF RingOf
  <2>2. ASSUME NEW x \in Gps, x # g PROVE RingOf(x)'
    <3>1. RingOf(x) /\ gps_parsed'[x] = gps_parsed[x] /\ strays'[x] = strays[x]
      BY <1>13, <2>2 DEF GpsInv, RingInv
    <3>2. \A k : HeldByte(x, k)' <=> HeldByte(x, k)
      BY <1>10, <1>11, <2>2, <3>1 DEF HeldByte, Before, Own
    <3>3. turn' # [gps |-> x, at |-> "take"]
      BY <1>1
    <3>4. QED
      BY <1>10, <1>11, <2>2, <3>1, <3>2, <3>3 DEF RingOf
  <2>3. QED
    BY <2>1, <2>2 DEF RingInv
<1>18. ParserInv'
  <2>1. ParserTypes /\ \A x \in Gps : ParserOf(x)
    BY DEF GpsInv, ParserInv
  <2>2. ParserOf(g)'
    BY <1>7, <1>8, <1>12, <2>1, ParserKeeps, StrayKeeps
  <2>3. ASSUME NEW x \in Gps, x # g PROVE ParserOf(x)'
    <3>1. ParserOf(x)
      BY <2>1
    <3>2. QED
      BY <1>13, <2>3, <3>1
        DEF ParserOf, HeaderInv, Gathered, ValueOf, Value, HeaderFree, At, In
  <2>4. QED
    BY <2>2, <2>3 DEF ParserInv
<1>19. QED
  BY <1>13, <1>14, <1>15, <1>17, <1>18 DEF GpsInv

LEMMA GpsNextKeeps == ASSUME GpsBytesAssumption PROVE GpsInv /\ [LineNext]_lineVars => GpsInv'
<1> SUFFICES ASSUME GpsInv, [LineNext]_lineVars PROVE GpsInv'
  OBVIOUS
<1>1. CASE UNCHANGED lineVars
  <2>1. /\ UNCHANGED <<rx_byte, rx_length, rx_data, isr>>
        /\ UNCHANGED <<rx_buf, rx_head, rx_tail, turn, popped, next, strays>>
        /\ UNCHANGED parsers
        /\ UNCHANGED <<state, frame_index, frame_buf, gps_parsed, run, good>>
    BY <1>1 DEF lineVars, line, rings, parsers
  <2>2. LineTypes' /\ ParserTypes'
    BY <2>1 DEF GpsInv, LineTypes, ParserTypes
  <2>3. ServedInv'
    BY <2>1 DEF GpsInv, ServedInv, ServedOf, Silent, Own, Unarmed
  <2>4. RingInv'
    BY <2>1 DEF GpsInv, RingInv, RingOf, HeldByte, Before, Own, Coming, Held, Kth
  <2>5. ParserInv'
    BY <2>1, ParsersStay DEF GpsInv
  <2>6. QED
    BY <2>2, <2>3, <2>4, <2>5 DEF GpsInv
<1>2. CASE SciHighLevelInterrupt \/ LinHighLevelInterrupt
  BY <1>2, StoreKeeps DEF SciHighLevelInterrupt, LinHighLevelInterrupt, Gps
<1>3. CASE DataAbort
  BY <1>1, <1>3 DEF DataAbort
<1>4. QED
  BY <1>1, <1>2, <1>3, PushKeeps, ArmKeeps, LookKeeps, TakeKeeps DEF LineNext

\* As long as the main loop runs every driver waits for its next byte; the bytes of
\* a receiver come to its parser in order and unmixed, whatever is lost, after at
\* most one byte that came while KavachInit was in sciReceive; and of two frames that
\* come whole in a row the second is accepted, if nothing in the first looks like
\* a header; for rings and frames of every length and with any contents.
THEOREM FramesAreRead == ASSUME GpsBytesAssumption PROVE LineSpec => []GpsFramesAreRead
<1>1. GpsInv => GpsFramesAreRead
  <2> SUFFICES ASSUME GpsInv PROVE GpsFramesAreRead
    OBVIOUS
  <2>1. DriversAreArmed
    <3>1. ASSUME turn.at \in {"look", "take"}, NEW g \in Gps
          PROVE  rx_length[g] = 0 <=> \E i \in DOMAIN isr : isr[i] = g
      <4>1. rx_length[g] = 0 <=> isr = <<g>>
        <5>1. ServedOf(g) /\ ~Unarmed(g) /\ rx_data[g] \in BOOLEAN
          BY <3>1 DEF GpsInv, ServedInv, LineTypes, Unarmed
        <5>2. QED
          BY <3>1, <5>1 DEF ServedOf
      <4>2. isr = <<g>> <=> \E i \in DOMAIN isr : isr[i] = g
        <5>1. CASE isr = <<>>
          BY <5>1
        <5>2. ASSUME NEW x \in Gps, isr = <<x>>
              PROVE  isr = <<g>> <=> \E i \in DOMAIN isr : isr[i] = g
          BY <5>2
        <5>3. QED
          BY <5>1, <5>2 DEF GpsInv, LineTypes
      <4>3. QED
        BY <4>1, <4>2
    <3>2. QED
      BY <3>1 DEF DriversAreArmed
  <2>2. OwnBytesInOrder
    <3>1. ASSUME NEW g \in Gps
          PROVE  /\ strays[g] <= 1
                 /\ \A k \in 0..(RX_BUF_SIZE - 2) : k < Held(g) => HeldByte(g, k)
                 /\ Coming(g) <= next[g] /\ next[g] \in Nat /\ Coming(g) \in Int
      BY DEF Coming, GpsInv, LineTypes, RingInv, RingOf, GpsBytesAssumption
    <3>2. ASSUME NEW g \in Gps, NEW k \in 0..(RX_BUF_SIZE - 2), k < Held(g)
          PROVE  \/ /\ Own(g, Kth(g, k))
                    /\ Before(g, k) < Kth(g, k).num /\ Kth(g, k).num < next[g]
                 \/ k = 0 /\ ~Own(g, Kth(g, k)) /\ strays[g] = 1 /\ gps_parsed[g] = 0
      <4>1. HeldByte(g, k)
        BY <3>1, <3>2
      <4>2. Kth(g, k).num < Coming(g) => Kth(g, k).num < next[g]
        BY <3>1, <4>1 DEF HeldByte, LineBytes
      <4>3. QED
        BY <4>1, <4>2 DEF HeldByte
    <3>3. QED
      BY <3>1, <3>2 DEF OwnBytesInOrder
  <2>3. SecondWholeFrameIsGood
    <3>1. ASSUME NEW g \in Gps, run[g] >= 2 * GPS_FRAME_TOTAL, gps_parsed[g] % GPS_FRAME_TOTAL = 0,
                 HeaderFree(g, gps_parsed[g] \div GPS_FRAME_TOTAL - 1)
          PROVE  good[g] = gps_parsed[g] \div GPS_FRAME_TOTAL
      <4> DEFINE p == gps_parsed[g]
                 m == p \div GPS_FRAME_TOTAL
      <4>1. /\ GPS_FRAME_TOTAL \in Nat /\ GPS_FRAME_TOTAL > 3
            /\ p \in Nat /\ run[g] \in Nat /\ run[g] <= p /\ ParserOf(g)
        BY DEF GpsBytesAssumption, GpsInv, ParserTypes, ParserInv, ParserOf
      <4>2. p = GPS_FRAME_TOTAL * m /\ m \in Nat
        BY <3>1, <4>1, SMTT(30)
      <4>0. HeaderFree(g, m - 1)
        BY <3>1
      <4> HIDE DEF p, m
      <4>3. m - 1 \in Nat
        BY <3>1, <4>1, <4>2, SMTT(30)
      <4>4. p = GPS_FRAME_TOTAL * (m - 1) + (GPS_FRAME_TOTAL - 1) + 1
        BY <4>1, <4>2, SMTT(30)
      <4>5. At(p) = GPS_FRAME_TOTAL - 1 /\ In(p) = (m - 1) + 1
        <5>1. GPS_FRAME_TOTAL - 1 \in Places
          BY <4>1 DEF Places
        <5>2. QED
          BY <4>1, <4>3, <4>4, <5>1, PlaceUnique
      <4>6. run[g] > GPS_FRAME_TOTAL + At(p) /\ In(p) - 1 = m - 1
        BY <3>1, <4>1, <4>3, <4>5
      <4>7. good[g] = In(p)
        BY <4>0, <4>1, <4>5, <4>6 DEF ParserOf, p
      <4>8. QED
        BY <4>2, <4>5, <4>7 DEF m, p
    <3>2. QED
      BY <3>1 DEF SecondWholeFrameIsGood
  <2>4. QED
    BY <2>1, <2>2, <2>3 DEF GpsFramesAreRead
<1>2. QED
  BY GpsInitHolds, GpsNextKeeps, <1>1, PTL DEF LineSpec
=============================================================================
