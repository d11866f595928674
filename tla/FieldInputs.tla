---------------------------- MODULE FieldInputs ----------------------------
(***************************************************************************)
(* The field inputs of the active station configuration: the values that   *)
(* the records of the input cards give them (Drivers/input_card.c), and    *)
(* the snapshot of all of them that v_1sTasks logs (source/sys_main.c).    *)
(*                                                                         *)
(* Values are kept by the place of an input in the configuration, which    *)
(* may be replaced at any moment; input_card_sync_configuration notices    *)
(* it by the station and the revision.  Which records of a card are        *)
(* accepted is modelled in StatusRx; here a record is an accepted one.     *)
(***************************************************************************)
EXTENDS StationConfig

CONSTANTS
  InputCount,    \* EVENT_LOG_STATIONARY_INPUT_COUNT
  Records,       \* the records of the cards: [card, on], on a set of channels
  Blobs,         \* the blobs that are presented to station_config_activate
  First          \* bound: more blobs, of which only one is presented, first of all

\* What the decoders read: numbers, and of sections that are in order as many
\* entries as the section counts, each with a name.
IsDecoded(b) ==
  /\ b.blob_size \in Nat /\ b.minor \in Nat /\ b.section_count \in Nat
  /\ b.header_size \in Nat /\ b.total_size \in Nat
  /\ HeaderIsGood(b) =>
       \A i \in 1..b.section_count :
         LET s == b.sections[i]
         IN /\ s.version \in Nat /\ s.offset \in Nat /\ s.length \in Nat
            /\ s.entry_count \in Nat /\ s.entry_size \in Nat
  /\ ValidateHeader(b) = Ok /\ ValidateSections(b) = Ok =>
       \A type \in 1..4 :
         HasSection(b, type) =>
           LET s == Section(b, type)
           IN /\ DOMAIN s.entries = 1..s.entry_count
              /\ \A e \in 1..s.entry_count : s.entries[e].name \in [1..3 -> {0, 1}]

Release(b) == [revision |-> b.revision, station_id |-> b.station_id]

\* The tool gives each configuration that it generates a revision of its own.
ASSUME FieldInputsAssumption ==
  /\ InputCount \in Nat
  /\ \A b \in Blobs \cup First : b # None /\ Release(b) # None /\ IsDecoded(b)
  /\ \A a, b \in Blobs : Release(a) = Release(b) => a = b
  /\ \A a \in Blobs, b \in First : Release(a) # Release(b)

VARIABLES
  active,        \* active_station_id and active_config_revision, None if not seen
  values,        \* field_input_values and field_input_value_valid: the value at
                 \* a place that is valid
  \* History.
  taken          \* the channels on in the last record taken from each card

inputVars == <<active, values>>
vars == <<configVars, inputVars, taken>>

\* What f says, and g where it says nothing.
Over(f, g) ==
  [x \in DOMAIN f \cup DOMAIN g |-> IF x \in DOMAIN f THEN f[x] ELSE g[x]]

Bit(channel, on) == IF channel \in on THEN 1 ELSE 0

(***************************************************************************)
(* Slips a programmer could make in the definitions below.  Nothing uses   *)
(* them: put in the place of the originals, they make the properties fail. *)
(***************************************************************************)

\* A replaced configuration noticed by its station only.
ChangedStation ==
  active # None /\ \/ context.state # "VALID"
                   \/ active.station_id # context.blob.station_id

\* A snapshot taken as complete whatever the number of inputs.
AnySnapshot(image) == context.state = "VALID"

-----------------------------------------------------------------------------
NoValues == [i \in {} |-> 0]

Init ==
  /\ ConfigInit
  /\ active = None
  /\ values = NoValues
  /\ taken = NoValues

\* The configuration is not the one of the values kept.
Changed ==
  active # None /\ (context.state # "VALID" \/ active # GetHeader.found)

\* input_card_sync_configuration, which every function below calls first.
SyncedValues == IF Changed THEN NoValues ELSE values

Synced == IF context.state = "VALID" THEN GetHeader.found ELSE None

Sync ==
  /\ active' = Synced
  /\ values' = SyncedValues

Inputs == GetSection(FIELD_INPUTS).found.entries

IsConfigured(card) ==
  context.state = "VALID" /\ \E i \in DOMAIN Inputs : Inputs[i].card_index = card

\* An accepted record, of which input_card_update_logical_inputs takes the
\* bits of the card's inputs.
CardRecord(r) ==
  /\ active' = Synced
  /\ IF IsConfigured(r.card)
     THEN /\ values' = Over([i \in {i \in DOMAIN Inputs : Inputs[i].card_index = r.card} |->
                               Bit(Inputs[i].channel_index, r.on)], SyncedValues)
          /\ taken' = Over([card \in {r.card} |-> r.on], taken)
     ELSE values' = SyncedValues /\ UNCHANGED taken
  /\ UNCHANGED configVars

\* A value is read: field_input_try_get_value, ..._state and their variants.
Read == Sync /\ UNCHANGED <<configVars, taken>>

Present(b) ==
  /\ Activate(b)
  /\ UNCHANGED <<inputVars, taken>>

Withdraw == Deactivate /\ UNCHANGED <<inputVars, taken>>

Next ==
  \/ \E b \in Blobs : Present(b)
  \/ presented = None /\ \E b \in First : Present(b)
  \/ Withdraw
  \/ \E r \in Records : CardRecord(r)
  \/ Read

Spec == Init /\ [][Next]_vars

-----------------------------------------------------------------------------
(* What is read *)

\* field_input_try_get_value_by_index, from 0; ValueByIndex(i).found is the id
\* and the value.
ValueByIndex(i) ==
  LET entry == GetEntry(FIELD_INPUTS, i)
  IN IF entry.result = "OK" /\ i + 1 \in DOMAIN SyncedValues
     THEN Answer("OK", <<entry.found.logical_id, SyncedValues[i + 1]>>)
     ELSE Answer("NOT_FOUND", None)

\* field_input_try_get_value: the first input of the id, if its value is valid.
ValueOf(id) ==
  LET matching == {i \in DOMAIN Inputs : Inputs[i].logical_id = id}
  IN IF context.state = "VALID" /\ matching # {} /\ Min(matching) \in DOMAIN SyncedValues
     THEN Answer("OK", SyncedValues[Min(matching)])
     ELSE Answer("NOT_FOUND", None)

\* field_input_decode_state
Decode(encoding, raw) ==
  CASE encoding = 1 -> IF raw = 1 THEN "ASSERTED" ELSE "DEASSERTED"
    [] encoding = 2 -> IF raw = 0 THEN "ASSERTED" ELSE "DEASSERTED"
    [] encoding = 3 -> IF raw = 1 THEN "NORMAL" ELSE "REVERSE"
    [] encoding = 4 -> IF raw = 1 THEN "CLEAR" ELSE "OCCUPIED"
    [] encoding = 5 -> IF raw = 1 THEN "OFF" ELSE "ON"

\* field_input_try_get_state
StateOf(id) ==
  IF FindInputById(id).result = "OK" /\ ValueOf(id).result = "OK"
  THEN Answer("OK", Decode(FindInputById(id).found.encoding, ValueOf(id).found))
  ELSE Answer("NOT_FOUND", None)

\* field_input_try_get_state_by_index
StateByIndex(i) ==
  LET entry == GetEntry(FIELD_INPUTS, i)
  IN IF entry.result = "OK" /\ ValueByIndex(i).result = "OK"
     THEN Answer("OK", Decode(entry.found.encoding, ValueByIndex(i).found[2]))
     ELSE Answer("NOT_FOUND", None)

\* v_1sTasks logs the image, the ids of the inputs that are on, only if it
\* could be made of all inputs.
Image == {ValueByIndex(i - 1).found[1] : i \in {i \in DOMAIN SyncedValues : SyncedValues[i] = 1}}

SnapshotComplete(image) ==
  /\ context.state = "VALID"
  /\ GetSection(FIELD_INPUTS).found.entry_count = InputCount
  /\ \A i \in DOMAIN Inputs :
       ValueByIndex(i - 1).result = "OK" /\ Inputs[i].logical_id \in 1..InputCount

-----------------------------------------------------------------------------
(* Properties *)

ConfigTypeOK ==
  /\ context.state \in {"EMPTY", "VALID", "INVALID"}
  /\ (context.blob # None) <=> (context.state = "VALID")
  /\ active # None => active.station_id # 0 /\ active.revision # 0
  /\ \A i \in DOMAIN values : values[i] \in {0, 1}

\* A value that is read for an input, by its id or by its place, is the bit
\* of its channel in the last record of its card, whatever configurations were
\* active in between; and the two ways to its state agree.
ValuesAreOfTheirInput ==
  context.state = "VALID" =>
    \A i \in DOMAIN Inputs :
      LET n == Inputs[i]
      IN /\ ValueOf(n.logical_id).result = "OK" =>
              /\ n.card_index \in DOMAIN taken
              /\ ValueOf(n.logical_id).found = Bit(n.channel_index, taken[n.card_index])
         /\ StateOf(n.logical_id) = StateByIndex(i - 1)
         /\ FindInputByLocation(n.card_index, n.channel_index) = FindInputById(n.logical_id)

\* In a snapshot that is logged the bit of every id from 1 to the number of
\* inputs is that of the channel of one input of that id.
SnapshotTellsInputs ==
  SnapshotComplete(Image) =>
    \A id \in 1..InputCount :
      \E i \in DOMAIN Inputs :
        /\ Inputs[i].logical_id = id
        /\ (id \in Image) <=> (Inputs[i].channel_index \in taken[Inputs[i].card_index])

\* What the active configuration refers to is found in it, by the getters that
\* serve it: a relay of a signal, an end of a point, the input of a track.
ReferencesAreServed ==
  \A type \in {SIGNALS, POINTS, TRACKS} :
    GetSection(type).result = "OK" =>
      \A i \in 1..GetSection(type).found.entry_count :
        LET n == GetEntry(type, i - 1).found
        IN /\ n = CASE type = SIGNALS -> FindSignalById(n.signal_id).found
                    [] type = POINTS -> FindPointById(n.point_id).found
                    [] type = TRACKS -> FindTrackById(n.track_id).found
           /\ \A r \in References(type, n) :
                FindInputById(r[1]).result = "OK" /\ FindInputById(r[1]).found.type = r[2]

\* A configuration is accepted exactly if it is consistent, and if not, the
\* report names its first fault (station_config_validate); what the active one
\* refers to is found in it.
ConfigIsJudged ==
  /\ ConfigAcceptsConsistent
  /\ ConfigNamesFirstFault
  /\ ConfigTypeOK
  /\ ReferencesAreServed
=============================================================================
