----------------------------- MODULE Interrupts -----------------------------
(***************************************************************************)
(* From a request to its handler (source/sys_vim.c): the interrupt         *)
(* controller (external) fetches the handler of the pending channel of     *)
(* highest priority from a table in its RAM, whose entries have a parity   *)
(* bit.  At a wrong entry it fetches vimParityErrorHandler instead, which  *)
(* corrects the entry and makes the controller fetch once more.            *)
(*                                                                         *)
(* Channel 0 is the one of the ESM, and the only FIQ.  KavachInit enables  *)
(* IRQs only, so it waits; but vimParityErrorHandler, which asks for a     *)
(* pending FIQ first, then handles an error of the ESM in its place: one   *)
(* of group 2, or of those of group 1 that esmInit lets interrupt.         *)
(***************************************************************************)
EXTENDS Naturals

CONSTANTS
  Errors,        \* the offsets of errors that the ESM can have
  MaxRequests,   \* bound: requests and errors in a behaviour
  MaxFlips       \* bound: entries of the table that go wrong

ASSUME InterruptsAssumption == Errors \subseteq Nat

\* REQMASKSET0..3: the channels that are enabled, without 1, which has no
\* source.
Enabled == {0, 2, 3, 13, 16, 35, 64, 74}

\* FIRQPR0..3: FIQs are 0 and 1, which cannot be IRQs.
Irqs == Enabled \ {0, 1}

\* The errors of group 1 that esmInit lets interrupt, by their offsets.
EnabledErrors == {}

\* The offsets of group 2, which always interrupts.
Group2 == 33..64 \cup 97..128

VARIABLES
  vimRAM,       \* the handler of each enabled channel
  flipped,      \* the channels whose entry has a wrong parity
  adderr,       \* VIM_ADDERR: the channel of the first of them fetched
  parflg,       \* VIM_PARFLG
  requested,    \* the channels with a request
  fallback,     \* channels for which the controller has fetched the fallback
  irq_pc,       \* "main", or "parity" in vimParityErrorHandler
  errors,       \* the errors of the ESM that are flagged
  \* History.
  misled,       \* handlers that ran without a request of their channel
  requests, flips,
  raised, told  \* how often each error was flagged, and told to its notification

vimVars == <<vimRAM, flipped, adderr, parflg, fallback, flips>>
interruptVars == <<vimVars, requested, irq_pc, errors, misled, requests, raised, told>>

First(set) == CHOOSE c \in set : \A d \in set : c <= d

\* The table that the program has: the handler of channel c, by its source.
s_vim_init ==
  [c \in Enabled |->
     CASE c = 0 -> "esmHighInterrupt"
       [] c = 2 -> "rtiCompare0Interrupt"
       [] c = 3 -> "rtiCompare1Interrupt"
       [] c = 13 -> "linHighLevelInterrupt"
       [] c = 16 -> "can1HighLevelInterrupt"
       [] c = 35 -> "can2HighLevelInterrupt"
       [] c = 64 -> "sciHighLevelInterrupt"
       [] c = 74 -> "sciLowLevelInterrupt"]

\* The source that a handler clears the request of.
SourceOf(handler) ==
  CASE handler = "esmHighInterrupt" -> 0
    [] handler = "rtiCompare0Interrupt" -> 2
    [] handler = "rtiCompare1Interrupt" -> 3
    [] handler = "linHighLevelInterrupt" -> 13
    [] handler = "can1HighLevelInterrupt" -> 16
    [] handler = "can2HighLevelInterrupt" -> 35
    [] handler = "sciHighLevelInterrupt" -> 64
    [] handler = "sciLowLevelInterrupt" -> 74

(***************************************************************************)
(* Slips a programmer could make in the definitions below.  Nothing uses   *)
(* them: put in the place of the originals, they make the properties fail. *)
(***************************************************************************)

\* The first entry of the table, of no channel, is not counted.
InitialEntryShifted(c) ==
  IF c = 74 THEN s_vim_init[0] ELSE s_vim_init[First({d \in Enabled : d > c})]

-----------------------------------------------------------------------------
\* vimInit
InterruptInit ==
  /\ vimRAM = s_vim_init
  /\ flipped = {} /\ adderr = 0 /\ parflg = FALSE /\ fallback = {} /\ flips = 0
  /\ requested = {} /\ irq_pc = "main" /\ errors = {}
  /\ misled = {} /\ requests = 0
  /\ raised = [e \in Errors |-> 0] /\ told = [e \in Errors |-> 0]

(* The hardware (external) *)

Request(c) ==
  /\ requests < MaxRequests /\ c \notin requested
  /\ requests' = requests + 1
  /\ requested' = requested \cup {c}
  /\ UNCHANGED <<vimVars, irq_pc, errors, misled, raised, told>>

RaiseError(e) ==
  /\ requests < MaxRequests /\ e \notin errors
  /\ requests' = requests + 1
  /\ errors' = errors \cup {e}
  /\ raised' = [raised EXCEPT ![e] = @ + 1]
  /\ UNCHANGED <<vimVars, requested, irq_pc, misled, told>>

Flip(c) ==
  /\ flips < MaxFlips /\ c \notin flipped
  /\ flips' = flips + 1
  /\ flipped' = flipped \cup {c}
  /\ UNCHANGED <<vimRAM, adderr, parflg, fallback, requested, irq_pc, errors, misled,
                 requests, raised, told>>

(***************************************************************************)
(* The controller fetches the handler, which runs and clears the request.  *)
(***************************************************************************)
Fetch(c) ==
  /\ irq_pc = "main" /\ c = First(requested)
  /\ c \notin flipped \cup fallback
  /\ LET source == SourceOf(vimRAM[c])
     IN /\ requested' = requested \ {source}
        /\ misled' = IF source \in requested THEN misled ELSE misled \cup {source}
  /\ UNCHANGED <<vimVars, irq_pc, errors, requests, raised, told>>

FetchFallback(c) ==
  /\ irq_pc = "main" /\ c = First(requested)
  /\ c \in flipped \cup fallback
  /\ irq_pc' = "parity"
  /\ fallback' = fallback \cup {c}
  /\ IF c \in flipped /\ ~parflg THEN adderr' = c /\ parflg' = TRUE ELSE UNCHANGED <<adderr, parflg>>
  /\ UNCHANGED <<vimRAM, flipped, flips, requested, errors, misled, requests, raised, told>>

(***************************************************************************)
(* vimParityErrorHandler                                                   *)
(***************************************************************************)
InitialEntry(c) == s_vim_init[c]

Correct ==
  /\ vimRAM' = [vimRAM EXCEPT ![adderr] = InitialEntry(adderr)]
  /\ flipped' = flipped \ {adderr}
  /\ parflg' = FALSE
  /\ UNCHANGED <<adderr, flips>>

\* The pending channel is disabled and enabled: it is fetched anew.
Refetch == fallback' = fallback \ {First(requested)}

\* The errors for which the ESM requests its FIQ.
Interrupting == errors \cap (Group2 \cup EnabledErrors)

\* FIQINDEX is 1, and the first of these errors is handled.
HandleError ==
  /\ errors' = errors \ {First(Interrupting)}
  /\ told' = [told EXCEPT ![First(Interrupting)] = @ + 1]

vimParityErrorHandler ==
  /\ irq_pc = "parity"
  /\ irq_pc' = "main"
  /\ Correct
  /\ IF Interrupting # {} THEN HandleError /\ UNCHANGED fallback
                    ELSE Refetch /\ UNCHANGED <<errors, told>>
  /\ UNCHANGED <<requested, misled, requests, raised>>

Handlers ==
  (\E c \in requested : Fetch(c) \/ FetchFallback(c)) \/ vimParityErrorHandler

InterruptNext ==
  \/ \E c \in Irqs : Request(c)
  \/ \E e \in Errors : RaiseError(e)
  \/ \E c \in Irqs : Flip(c)
  \/ Handlers

InterruptSpec == InterruptInit /\ [][InterruptNext]_interruptVars

-----------------------------------------------------------------------------
(* Properties *)

\* Although entries of the table go wrong at any time, and one is corrected
\* while requests come and the ESM has errors, no handler runs that nobody has
\* requested, and an error is told once (vimParityErrorHandler).
HandlersAreRequested ==
  /\ misled = {}
  /\ \A e \in Errors : raised[e] = told[e] + (IF e \in errors THEN 1 ELSE 0)
=============================================================================
