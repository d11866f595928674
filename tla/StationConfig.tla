--------------------------- MODULE StationConfig ---------------------------
(***************************************************************************)
(* The station configuration (Drivers/station_config.c): a binary blob     *)
(* that an external tool generates.  station_config_activate validates it  *)
(* and keeps it only if it is valid; the getters read it in place.         *)
(*                                                                         *)
(* A blob is the record of what the decoders read from it.  The CRC is     *)
(* taken to be perfect (crc is whether it is right), and a name is the     *)
(* octets of its field: 1 for a letter, 0 for the end.  A section carries  *)
(* its entries, as the bytes of one section are read only when the         *)
(* sections are known to be disjoint; an entry has the fields of its       *)
(* section's type.                                                         *)
(***************************************************************************)
EXTENDS Integers, Sequences, FiniteSetsExt

CONSTANTS
  None           \* nothing, of a blob or of what a getter returns

VARIABLES
  context,       \* station_config_context: blob, state and last_error
  \* History.
  presented,     \* the blob of the last station_config_activate
  report         \* what it reported: result, section_type, entry_index

configVars == <<context, presented, report>>

MaxBlobSize == 131072 \* STATION_CONFIG_MAX_BLOB_SIZE
Fixed == 32      \* STATION_CONFIG_FIXED_HEADER_SIZE
Descriptor == 16 \* STATION_CONFIG_SECTION_DESCRIPTOR_SIZE

FIELD_INPUTS == 1
SIGNALS == 2
POINTS == 3
TRACKS == 4

EntrySize == <<32, 32, 24, 24>>
MaxEntries == <<512, 256, 256, 512>>
SectionVersion == <<2, 1, 1, 1>>

SIGNAL_RELAY == 1
POINT_POSITION == 2
TRACK_CIRCUIT == 3
AXLE_COUNTER == 4
InputTypes == 1..9
InputEncodings == 1..5

Cards == 1..16
Channels == 0..31

(***************************************************************************)
(* Slips a programmer could make in the definitions below.  Nothing uses   *)
(* them: put in the place of the originals, they make the properties fail. *)
(***************************************************************************)

\* A reference that is looked up, but not checked for its type.
RefersToAny(b, id, type) ==
  \E i \in 1..b.section_count :
    /\ b.sections[i].type = FIELD_INPUTS
    /\ \E e \in DOMAIN b.sections[i].entries :
         b.sections[i].entries[e].logical_id = id

-----------------------------------------------------------------------------
(* Validation *)

Report(result, type, entry) ==
  [result |-> result, section_type |-> type, entry_index |-> entry]

Ok == Report("OK", 0, 0)

\* The report of a check: of its error, or Ok.
When(failed, error) == IF failed THEN error ELSE Ok

\* Of reports in the order in which the code makes them, the first error.
FirstError(reports) ==
  LET failed == {i \in DOMAIN reports : reports[i] # Ok}
  IN IF failed = {} THEN Ok ELSE reports[Min(failed)]

NameIsValid(name) == name[1] # 0 /\ \E i \in DOMAIN name : name[i] = 0

ExpectedHeaderSize(b) == Fixed + b.section_count * Descriptor

ValidateHeader(b) ==
  FirstError(<<
    When(b.blob_size < Fixed \/ b.blob_size > MaxBlobSize, Report("SIZE", 0, 0)),
    When(b.magic # "STCF", Report("MAGIC", 0, 0)),
    When(b.major # 1 \/ b.minor > 1, Report("VERSION", 0, 0)),
    When(b.section_count \notin 1..16, Report("SECTION_COUNT", 0, 0)),
    When(\/ b.header_size # ExpectedHeaderSize(b)
         \/ b.total_size # b.blob_size
         \/ b.total_size < ExpectedHeaderSize(b), Report("HEADER", 0, 0)),
    When(b.station_id = 0, Report("STATION_ID", 0, 0)),
    When(b.revision = 0, Report("REVISION", 0, 0)),
    When(b.flags # 0 \/ b.reserved # 0, Report("HEADER", 0, 0)),
    When(~b.crc, Report("CRC", 0, 0)) >>)

\* Section i compared with those before it, the nearest to the start first.
CompareSections(b, i) ==
  LET s == b.sections[i]
  IN FirstError([j \in 1..(i - 1) |->
       LET c == b.sections[j]
       IN FirstError(<<
            When(c.type = s.type, Report("DUPLICATE_SECTION", s.type, i - 1)),
            When(s.offset < c.offset + c.length /\ c.offset < s.offset + s.length,
                 Report("SECTION_OVERLAP", s.type, i - 1)) >>)])

ValidateSection(b, i) ==
  LET s == b.sections[i]
  IN FirstError(<<
       FirstError(<<
         When(s.type = 0 \/ s.version = 0, Report("HEADER", s.type, i - 1)),
         When(s.offset < b.header_size \/ s.offset + s.length > b.total_size,
              Report("SECTION_BOUNDS", s.type, i - 1)),
         When(\/ s.entry_count = 0 \/ s.entry_size = 0
              \/ s.entry_count * s.entry_size # s.length,
              Report("ENTRY_SIZE", s.type, i - 1)) >>),
       CompareSections(b, i) >>)

ValidateSections(b) ==
  FirstError([i \in 1..b.section_count |-> ValidateSection(b, i)])

\* station_config_find_section_in_blob: the places of the section of a type,
\* of which a validated directory has at most one.
Find(b, type) == {i \in 1..b.section_count : b.sections[i].type = type}

HasSection(b, type) == Find(b, type) # {}
Section(b, type) == b.sections[Min(Find(b, type))]
Entries(b, type) == IF HasSection(b, type) THEN Section(b, type).entries ELSE <<>>

\* The field inputs of an id, the first of which
\* station_config_find_input_in_blob returns.
InputsOf(b, id) == {e \in DOMAIN Entries(b, FIELD_INPUTS) :
                      Entries(b, FIELD_INPUTS)[e].logical_id = id}
InputOf(b, id) == Entries(b, FIELD_INPUTS)[Min(InputsOf(b, id))]
RefersTo(b, id, type) == InputsOf(b, id) # {} /\ InputOf(b, id).type = type

\* Two errors of a field input have their own codes; the other sections give
\* one code for both.
ValidateShape(s, type) ==
  FirstError(<<
    When(s.version # SectionVersion[type], Report("VERSION", type, 0)),
    When(s.entry_size # EntrySize[type], Report("ENTRY_SIZE", type, 0)),
    When(s.entry_count > MaxEntries[type],
         Report(IF type = FIELD_INPUTS THEN "ENTRY_COUNT" ELSE "ENTRY_SIZE", type, 0)) >>)

CompareInputs(entries, e) ==
  FirstError([c \in 1..(e - 1) |->
    FirstError(<<
      When(entries[c].logical_id = entries[e].logical_id,
           Report("DUPLICATE_INPUT_ID", FIELD_INPUTS, e - 1)),
      When(/\ entries[c].card_index = entries[e].card_index
           /\ entries[c].channel_index = entries[e].channel_index,
           Report("DUPLICATE_INPUT_LOCATION", FIELD_INPUTS, e - 1)) >>)])

ValidateInput(entries, e) ==
  LET n == entries[e]
      Error(result) == Report(result, FIELD_INPUTS, e - 1)
  IN FirstError(<<
       When(n.logical_id = 0, Error("INPUT_ID")),
       When(n.card_index \notin Cards \/ n.channel_index \notin Channels,
            Error("INPUT_LOCATION")),
       When(n.type \notin InputTypes, Error("INPUT_TYPE")),
       When(n.encoding \notin InputEncodings, Error("INPUT_ENCODING")),
       When(~NameIsValid(n.name), Error("INPUT_NAME")),
       When(n.flags # 0, Error("INPUT_FLAGS")),
       CompareInputs(entries, e) >>)

\* The relays of a signal: recr, hecr, decr and hhecr_input_id; 0 for one that
\* the signal does not have.
Relays(signal) == {signal.inputs[r] : r \in 1..4} \ {0}

ValidateSignal(b, entries, e) ==
  LET n == entries[e]
      Error(result) == Report(result, SIGNALS, e - 1)
  IN FirstError(<<
       When(n.signal_id = 0, Error("OBJECT_ID")),
       When(n.flags # 0, Error("OBJECT_FLAGS")),
       When(~NameIsValid(n.name), Error("OBJECT_NAME")),
       When(\/ Relays(n) = {}
            \/ \E id \in Relays(n) : ~RefersTo(b, id, SIGNAL_RELAY),
            Error("OBJECT_REFERENCE")),
       When(\E c \in 1..(e - 1) : entries[c].signal_id = n.signal_id,
            Error("DUPLICATE_OBJECT_ID")) >>)

ValidatePoint(b, entries, e) ==
  LET n == entries[e]
      Error(result) == Report(result, POINTS, e - 1)
  IN FirstError(<<
       When(n.point_id = 0, Error("OBJECT_ID")),
       When(\/ n.end_a_input_id = 0 \/ n.end_b_input_id = 0
            \/ n.end_a_input_id = n.end_b_input_id, Error("OBJECT_REFERENCE")),
       When(n.flags # 0, Error("OBJECT_FLAGS")),
       When(~NameIsValid(n.name), Error("OBJECT_NAME")),
       When(\E id \in {n.end_a_input_id, n.end_b_input_id} :
              ~RefersTo(b, id, POINT_POSITION), Error("OBJECT_REFERENCE")),
       When(\E c \in 1..(e - 1) : entries[c].point_id = n.point_id,
            Error("DUPLICATE_OBJECT_ID")) >>)

\* The type of input that a kind of track (STATION_TRACK_KIND_...) needs.
TrackInput == <<TRACK_CIRCUIT, AXLE_COUNTER>>

ValidateTrack(b, entries, e) ==
  LET n == entries[e]
      Error(result) == Report(result, TRACKS, e - 1)
  IN FirstError(<<
       When(n.track_id = 0, Error("OBJECT_ID")),
       When(n.input_id = 0 \/ InputsOf(b, n.input_id) = {}, Error("OBJECT_REFERENCE")),
       When(\/ n.kind \notin DOMAIN TrackInput
            \/ ~RefersTo(b, n.input_id, TrackInput[n.kind]), Error("OBJECT_TYPE")),
       When(n.flags # 0, Error("OBJECT_FLAGS")),
       When(~NameIsValid(n.name), Error("OBJECT_NAME")),
       When(\E c \in 1..(e - 1) : entries[c].track_id = n.track_id,
            Error("DUPLICATE_OBJECT_ID")) >>)

\* Entry e of the section of a type.
ValidateEntry(b, type, e) ==
  LET entries == Entries(b, type)
  IN CASE type = FIELD_INPUTS -> ValidateInput(entries, e)
       [] type = SIGNALS -> ValidateSignal(b, entries, e)
       [] type = POINTS -> ValidatePoint(b, entries, e)
       [] type = TRACKS -> ValidateTrack(b, entries, e)

\* station_config_validate_field_inputs, ..._signals, ..._points and ..._tracks:
\* the entries once the section itself is in order.  Only the inputs are
\* required.
ValidateEntries(b, type) ==
  IF ~HasSection(b, type)
  THEN When(type = FIELD_INPUTS, Report("REQUIRED_SECTION", FIELD_INPUTS, 0))
  ELSE IF ValidateShape(Section(b, type), type) # Ok
  THEN ValidateShape(Section(b, type), type)
  ELSE FirstError([e \in DOMAIN Entries(b, type) |-> ValidateEntry(b, type, e)])

\* station_config_validate: each step only if the ones before it find no error.
Validate(b) ==
  IF ValidateHeader(b) # Ok THEN ValidateHeader(b)
  ELSE IF ValidateSections(b) # Ok THEN ValidateSections(b)
  ELSE FirstError([type \in 1..4 |-> ValidateEntries(b, type)])

-----------------------------------------------------------------------------
(* The active configuration *)

Inactive(state, error) == [blob |-> None, state |-> state, last_error |-> error]

ConfigInit ==
  /\ context = Inactive("EMPTY", "OK")
  /\ presented = None
  /\ report = Ok

Activate(b) ==
  /\ report' = Validate(b)
  /\ presented' = b
  /\ context' = IF report' = Ok
                THEN [blob |-> b, state |-> "VALID", last_error |-> "OK"]
                ELSE Inactive("INVALID", report'.result)

Deactivate ==
  /\ context' = Inactive("EMPTY", "OK")
  /\ UNCHANGED <<presented, report>>

-----------------------------------------------------------------------------
(* What the getters answer: a result, and what they found if it is "OK" *)

Answer(result, found) == [result |-> result, found |-> found]

GetHeader ==
  IF context.state # "VALID" THEN Answer("NOT_ACTIVE", None)
  ELSE Answer("OK", [revision |-> context.blob.revision,
                     station_id |-> context.blob.station_id])

GetSection(type) ==
  IF context.state # "VALID" THEN Answer("NOT_ACTIVE", None)
  ELSE IF ~HasSection(context.blob, type) THEN Answer("NOT_FOUND", None)
  ELSE Answer("OK", Section(context.blob, type))

\* The getters by index, from 0.
GetEntry(type, index) ==
  LET section == GetSection(type)
  IN IF section.result # "OK" THEN Answer(section.result, None)
     ELSE IF index >= section.found.entry_count THEN Answer("NOT_FOUND", None)
     ELSE Answer("OK", section.found.entries[index + 1])

\* The searches: the first entry that agrees with the fields of the key.
FindEntry(type, key) ==
  LET section == GetSection(type)
      entries == section.found.entries
      matching == {e \in DOMAIN entries : \A f \in DOMAIN key : entries[e][f] = key[f]}
  IN IF section.result # "OK" THEN Answer(section.result, None)
     ELSE IF matching = {} THEN Answer("NOT_FOUND", None)
     ELSE Answer("OK", entries[Min(matching)])

FindInputById(id) == FindEntry(FIELD_INPUTS, [logical_id |-> id])
FindInputByLocation(card, channel) ==
  FindEntry(FIELD_INPUTS, [card_index |-> card, channel_index |-> channel])
FindSignalById(id) == FindEntry(SIGNALS, [signal_id |-> id])
FindPointById(id) == FindEntry(POINTS, [point_id |-> id])
FindTrackById(id) == FindEntry(TRACKS, [track_id |-> id])

-----------------------------------------------------------------------------
(* Properties *)

\* What a blob has to be, said without an order of checks.
HeaderIsGood(b) ==
  /\ b.blob_size \in Fixed..MaxBlobSize
  /\ b.magic = "STCF" /\ b.major = 1 /\ b.minor \in {0, 1}
  /\ b.section_count \in 1..16
  /\ b.header_size = Fixed + b.section_count * Descriptor
  /\ b.total_size = b.blob_size
  /\ b.station_id # 0 /\ b.revision # 0 /\ b.flags = 0 /\ b.reserved = 0 /\ b.crc

End(s) == s.offset + s.length

DirectoryIsGood(b) ==
  LET sections == {b.sections[i] : i \in 1..b.section_count}
  IN /\ Cardinality({s.type : s \in sections}) = b.section_count
     /\ FIELD_INPUTS \in {s.type : s \in sections}
     /\ \A s \in sections :
          /\ s.type # 0 /\ s.version # 0
          /\ s.length > 0 /\ b.header_size <= s.offset /\ End(s) <= b.total_size
          /\ s.length = s.entry_count * s.entry_size
          /\ s.type \in DOMAIN EntrySize =>
               /\ s.version = SectionVersion[s.type]
               /\ s.entry_size = EntrySize[s.type]
               /\ s.entry_count <= MaxEntries[s.type]
          /\ \A t \in sections \ {s} : End(s) <= t.offset \/ End(t) <= s.offset

Id(type, n) == CASE type = FIELD_INPUTS -> n.logical_id
                 [] type = SIGNALS -> n.signal_id
                 [] type = POINTS -> n.point_id
                 [] type = TRACKS -> n.track_id

\* What an entry refers to, each with the type of input it needs.
References(type, n) ==
  CASE type = FIELD_INPUTS -> {}
    [] type = SIGNALS -> {<<id, SIGNAL_RELAY>> : id \in Relays(n)}
    [] type = POINTS -> {<<n.end_a_input_id, POINT_POSITION>>,
                         <<n.end_b_input_id, POINT_POSITION>>}
    [] type = TRACKS -> {<<n.input_id, TrackInput[n.kind]>>}

\* Letters and then the end, of fields cut to three octets.
Names == {<<1, 0, 0>>, <<1, 0, 1>>, <<1, 1, 0>>}

FieldsAreGood(type, n) ==
  /\ Id(type, n) # 0 /\ n.flags = 0 /\ n.name \in Names
  /\ type = FIELD_INPUTS => /\ n.card_index \in Cards /\ n.channel_index \in Channels
                            /\ n.type \in InputTypes /\ n.encoding \in InputEncodings
  /\ type = SIGNALS => Relays(n) # {}
  /\ type = POINTS => n.end_a_input_id # n.end_b_input_id
  /\ type = TRACKS => n.kind \in DOMAIN TrackInput

EntryIsGood(b, type, e) ==
  LET entries == Entries(b, type)
      inputs == Entries(b, FIELD_INPUTS)
      n == entries[e]
  IN /\ FieldsAreGood(type, n)
     /\ \A r \in References(type, n) :
          \E i \in DOMAIN inputs : inputs[i].logical_id = r[1] /\ inputs[i].type = r[2]
     /\ \A c \in 1..(e - 1) :
          /\ Id(type, entries[c]) # Id(type, n)
          /\ type = FIELD_INPUTS => \/ entries[c].card_index # n.card_index
                                    \/ entries[c].channel_index # n.channel_index

BadEntries(b) ==
  UNION {{<<type, e>> : e \in {e \in DOMAIN Entries(b, type) : ~EntryIsGood(b, type, e)}} :
         type \in 1..4}

Consistent(b) == HeaderIsGood(b) /\ DirectoryIsGood(b) /\ BadEntries(b) = {}

\* A blob is accepted if, and only if, it is consistent: sections apart from
\* each other and within the blob, entries that are alone in their ids and
\* locations, references that resolve to one input of the right type.
ConfigAcceptsConsistent ==
  presented # None => (report = Ok <=> Consistent(presented))

\* A rejection that names an entry names the first bad one, by type of section
\* and then by place: the ones before it are good.
ConfigNamesFirstFault ==
  (presented # None /\ HeaderIsGood(presented) /\ DirectoryIsGood(presented)) =>
    \/ report = Ok
    \/ /\ <<report.section_type, report.entry_index + 1>> \in BadEntries(presented)
       /\ \A bad \in BadEntries(presented) :
            \/ bad[1] > report.section_type
            \/ bad[1] = report.section_type /\ bad[2] > report.entry_index
=============================================================================
