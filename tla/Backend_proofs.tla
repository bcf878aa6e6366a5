---------------------------- MODULE Backend_proofs ----------------------------
(***************************************************************************)
(* Proofs about the ledger, the adapter that owns it and the executor, and *)
(* about Backend, which composes them, for any requests, calls, operation  *)
(* ids, arguments, capacities, TTL and responses.                          *)
(*                                                                         *)
(* The ledger comes first: the step lemmas say what each of its methods    *)
(* does to a well-typed ledger, its theorems are about LedgerSpec, any     *)
(* sequence of its operations, and the adapter's proof uses the lemmas.    *)
(* The adapter's inductive invariant is AdapterTypeOK /\ AdapterInv.       *)
(*                                                                         *)
(* The executor's inductive invariant is ExecutorTypeOK /\ ExecutorInv.    *)
(* Its order part reads the executor as one line: what has run, then the   *)
(* item in the worker's hands, then the queue, each behind the other in    *)
(* the order of admission.                                                 *)
(*                                                                         *)
(* Backend's is BackendIInv: the adapter's and the executor's invariants,  *)
(* and what ties them together through the IPC loop.                       *)
(***************************************************************************)
EXTENDS Backend, FiniteSetTheorems, TLAPS

-----------------------------------------------------------------------------
(* The operation ledger.                                                   *)

\* begin() of operation_ledger.rs leaves a ledger that is well typed.
LEMMA BeginType ==
  ASSUME LedgerTypeOK, NEW id \in OperationId, NEW given \in Fingerprint, Begin(id, given)
  PROVE  LedgerTypeOK'
<1>1. Retained \subseteq DOMAIN entries
  BY DEF Retained
<1>2. Admitted(given) \in Entry /\ Admitted(given).touched = now
  BY DEF Admitted, Entry, LedgerTypeOK
<1>3. CASE id \in Retained
  <2>1. entries' = [i \in Retained |->
          IF i = id THEN [entries[i] EXCEPT !.touched = now] ELSE entries[i]]
    BY <1>3 DEF Begin
  <2>2. \A i \in Retained : entries[i] \in Entry
    BY <1>1 DEF LedgerTypeOK
  <2>3. \A i \in Retained : entries'[i] \in Entry
    BY <2>1, <2>2 DEF Entry, LedgerTypeOK
  <2>4. \A i \in Retained : entries'[i].touched <= now
    BY <1>1, <2>1, <2>2 DEF Entry, LedgerTypeOK
  <2> QED
    BY <1>1, <2>1, <2>3, <2>4 DEF LedgerTypeOK, Begin
<1>4. CASE id \notin Retained /\ Admission(id, given) = "Started"
  <2>1. entries' = [i \in Retained \cup {id} |->
          IF i = id THEN Admitted(given) ELSE entries[i]]
    BY <1>4 DEF Begin
  <2>2. \A i \in Retained : entries[i] \in Entry /\ entries[i].touched <= now
    BY <1>1 DEF LedgerTypeOK
  <2>3. \A i \in Retained \cup {id} : entries'[i] \in Entry /\ entries'[i].touched <= now
    BY <2>1, <2>2, <1>2 DEF LedgerTypeOK
  <2> QED
    BY <1>1, <2>1, <2>3 DEF LedgerTypeOK, Begin
<1>5. CASE id \notin Retained /\ Admission(id, given) # "Started"
  <2>1. entries' = [i \in Retained |-> entries[i]]
    BY <1>5 DEF Begin
  <2> QED
    BY <1>1, <2>1 DEF LedgerTypeOK, Begin
<1> QED
  BY <1>3, <1>4, <1>5

\* set_status leaves a ledger that is well typed.
LEMMA SetStatusType ==
  ASSUME LedgerTypeOK, NEW id \in OperationId,
         NEW s \in {"InFlight", "Completed", "Unknown"},
         NEW v \in Value \cup {NoValue}, SetStatus(id, s, v)
  PROVE  LedgerTypeOK' /\ DOMAIN entries' = DOMAIN entries
<1>1. id \in DOMAIN entries /\ DOMAIN entries' = DOMAIN entries /\ now' = now
  BY DEF SetStatus
<1>2. entries'[id] = [fingerprint |-> entries[id].fingerprint, status |-> s,
                      value |-> v, touched |-> now]
  BY <1>1 DEF SetStatus
<1>3. \A i \in DOMAIN entries : i # id => entries'[i] = entries[i]
  BY DEF SetStatus
<1>4. entries'[id] \in Entry /\ entries'[id].touched <= now
  BY <1>1, <1>2 DEF Entry, LedgerTypeOK
<1>5. \A i \in DOMAIN entries : entries'[i] \in Entry /\ entries'[i].touched <= now
  BY <1>3, <1>4 DEF LedgerTypeOK
<1>6. entries' = [i \in DOMAIN entries |-> entries'[i]]
  BY DEF SetStatus
<1> QED
  BY <1>1, <1>5, <1>6 DEF LedgerTypeOK

\* abandon_unstarted leaves a ledger that is well typed.
LEMMA AbandonType ==
  ASSUME LedgerTypeOK, NEW id, NEW given, AbandonUnstarted(id, given)
  PROVE  LedgerTypeOK' /\ DOMAIN entries' = DOMAIN entries \ {id}
BY DEF LedgerTypeOK, AbandonUnstarted

\* The empty ledger of OperationLedger::new is well typed.
LEMMA LedgerInitType == LedgerInit => LedgerTypeOK
BY DEF LedgerInit, LedgerTypeOK

\* The clock moves on without disturbing the ledger's type.
LEMMA TickType == LedgerTypeOK /\ Tick => LedgerTypeOK'
<1> SUFFICES ASSUME LedgerTypeOK, Tick PROVE LedgerTypeOK'
  OBVIOUS
<1>1. entries' = entries /\ now' = now + 1 /\ now \in Nat
  BY DEF Tick, LedgerTypeOK
<1>2. \A id \in DOMAIN entries : entries[id].touched \in Nat
  BY DEF LedgerTypeOK, Entry
<1> QED
  BY <1>1, <1>2 DEF LedgerTypeOK

\* The ledger is well typed in every reachable state of OperationLedger.
THEOREM LedgerTypeCorrect == LedgerSpec => []LedgerTypeOK
<1>1. LedgerTypeOK /\ [LedgerNext]_ledgerVars => LedgerTypeOK'
  <2> SUFFICES ASSUME LedgerTypeOK, [LedgerNext]_ledgerVars PROVE LedgerTypeOK'
    OBVIOUS
  <2>1. ASSUME NEW id \in OperationId, NEW given \in Fingerprint, Begin(id, given)
        PROVE  LedgerTypeOK'
    BY <2>1, BeginType
  <2>2. ASSUME NEW id \in OperationId, NEW v \in Value, Complete(id, v)
        PROVE  LedgerTypeOK'
    BY <2>2, SetStatusType DEF Complete
  <2>3. ASSUME NEW id \in OperationId, MarkUnknown(id)
        PROVE  LedgerTypeOK'
    BY <2>3, SetStatusType DEF MarkUnknown
  <2>4. ASSUME NEW id \in OperationId, NEW given \in Fingerprint, AbandonUnstarted(id, given)
        PROVE  LedgerTypeOK'
    BY <2>4, AbandonType
  <2>5. CASE Tick
    BY <2>5, TickType
  <2>6. CASE UNCHANGED ledgerVars
    BY <2>6 DEF ledgerVars, LedgerTypeOK
  <2> QED
    BY <2>1, <2>2, <2>3, <2>4, <2>5, <2>6 DEF LedgerNext
<1> QED
  BY <1>1, LedgerInitType, PTL DEF LedgerSpec

-----------------------------------------------------------------------------
(* The capacity.  Cardinality is only meaningful of a finite set, so the   *)
(* invariant carries the finiteness of the map along.                      *)

FiniteLedger == IsFiniteSet(DOMAIN entries) /\ LedgerBounded

\* begin() keeps the map within max_entries: it evicts first and inserts only
\* below the capacity.
LEMMA BeginBounded ==
  ASSUME FiniteLedger, NEW id, NEW given, Begin(id, given)
  PROVE  FiniteLedger'
<1>1. Retained \subseteq DOMAIN entries
  BY DEF Retained
<1>2. IsFiniteSet(Retained) /\ Cardinality(Retained) <= Cardinality(DOMAIN entries)
  BY <1>1, FS_Subset DEF FiniteLedger
<1>3. Cardinality(Retained) \in Nat /\ Cardinality(DOMAIN entries) \in Nat
  BY <1>2, FS_CardinalityType DEF FiniteLedger
<1>4. Cardinality(Retained) <= MaxEntries
  BY <1>2, <1>3, LedgerAssumption DEF FiniteLedger, LedgerBounded
<1>5. CASE DOMAIN entries' = Retained
  BY <1>2, <1>4, <1>5 DEF FiniteLedger, LedgerBounded
<1>6. CASE id \notin Retained /\ Admission(id, given) = "Started"
  <2>1. DOMAIN entries' = Retained \cup {id}
    BY <1>6 DEF Begin
  <2>2. ~(Cardinality(Retained) >= MaxEntries)
    BY <1>6 DEF Admission
  <2>3. IsFiniteSet(Retained \cup {id})
        /\ Cardinality(Retained \cup {id}) = Cardinality(Retained) + 1
    BY <1>2, <1>6, FS_AddElement
  <2>4. Cardinality(Retained) + 1 <= MaxEntries
    BY <2>2, <1>3, LedgerAssumption
  <2> QED
    BY <2>1, <2>3, <2>4 DEF FiniteLedger, LedgerBounded
<1> QED
  BY <1>5, <1>6 DEF Begin

\* The map never outgrows max_entries, for every capacity and TTL.
THEOREM LedgerNeverOutgrown == LedgerSpec => []LedgerBounded
<1>1. LedgerInit => FiniteLedger
  <2> SUFFICES ASSUME LedgerInit PROVE FiniteLedger
    OBVIOUS
  <2>1. DOMAIN entries = {}
    BY DEF LedgerInit
  <2>2. IsFiniteSet({}) /\ Cardinality({}) = 0
    BY FS_EmptySet
  <2> QED
    BY <2>1, <2>2, LedgerAssumption DEF FiniteLedger, LedgerBounded
<1>2. FiniteLedger /\ [LedgerNext]_ledgerVars => FiniteLedger'
  <2> SUFFICES ASSUME FiniteLedger, [LedgerNext]_ledgerVars PROVE FiniteLedger'
    OBVIOUS
  <2>1. ASSUME NEW id, NEW given, Begin(id, given) PROVE FiniteLedger'
    BY <2>1, BeginBounded
  <2>2. ASSUME DOMAIN entries' = DOMAIN entries PROVE FiniteLedger'
    BY <2>2 DEF FiniteLedger, LedgerBounded
  <2>3. ASSUME NEW id, NEW given, AbandonUnstarted(id, given) PROVE FiniteLedger'
    <3>1. DOMAIN entries' = DOMAIN entries \ {id}
      BY <2>3 DEF AbandonUnstarted
    <3>2. IsFiniteSet(DOMAIN entries')
          /\ Cardinality(DOMAIN entries') <= Cardinality(DOMAIN entries)
      BY <3>1, FS_Subset DEF FiniteLedger
    <3>3. Cardinality(DOMAIN entries') \in Nat /\ Cardinality(DOMAIN entries) \in Nat
      BY <3>2, FS_CardinalityType DEF FiniteLedger
    <3> QED
      BY <3>2, <3>3, LedgerAssumption DEF FiniteLedger, LedgerBounded
  <2>4. ASSUME NEW id, NEW s, NEW v, SetStatus(id, s, v)
        PROVE  DOMAIN entries' = DOMAIN entries
    BY <2>4 DEF SetStatus
  <2> QED
    BY <2>1, <2>2, <2>3, <2>4
       DEF LedgerNext, Complete, MarkUnknown, Tick, ledgerVars
<1>3. FiniteLedger => LedgerBounded
  BY DEF FiniteLedger
<1> QED
  BY <1>1, <1>2, <1>3, PTL DEF LedgerSpec

-----------------------------------------------------------------------------
(* What leaves the ledger, and when.                                       *)

\* begin() only forgets what is settled and older than the TTL, and changes
\* nothing of what it keeps but the time stamp of the id it is asked about.
LEMMA BeginKeeps ==
  ASSUME LedgerTypeOK, NEW id, NEW given, Begin(id, given), NEW i \in Retained
  PROVE  /\ i \in DOMAIN entries /\ i \in DOMAIN entries'
         /\ entries'[i].fingerprint = entries[i].fingerprint
         /\ entries'[i].status = entries[i].status
         /\ entries'[i].value = entries[i].value
<1>1. i \in DOMAIN entries /\ entries[i] \in Entry
  BY DEF Retained, LedgerTypeOK
<1>2. CASE id \in Retained
  <2>1. /\ i \in DOMAIN entries'
        /\ entries'[i] = (IF i = id THEN [entries[i] EXCEPT !.touched = now] ELSE entries[i])
    BY <1>2 DEF Begin
  <2> QED
    BY <1>1, <2>1 DEF Entry
<1>3. CASE id \notin Retained
  <2>1. entries'[i] = entries[i] /\ i \in DOMAIN entries'
    BY <1>3 DEF Begin
  <2> QED
    BY <1>1, <2>1
<1> QED
  BY <1>2, <1>3

\* An operation in flight leaves the ledger only by abandon_unstarted and keeps
\* the arguments it was admitted with.
THEOREM InFlightIsKept == LedgerSpec => InFlightSurvives
<1>1. LedgerTypeOK /\ [LedgerNext]_ledgerVars =>
        [\A id \in DOMAIN entries :
           entries[id].status = "InFlight" =>
             \/ id \in DOMAIN entries' /\ entries'[id].fingerprint = entries[id].fingerprint
             \/ AbandonUnstarted(id, entries[id].fingerprint)]_ledgerVars
  <2> SUFFICES ASSUME LedgerTypeOK, LedgerNext, NEW i \in DOMAIN entries,
                      entries[i].status = "InFlight"
               PROVE  \/ /\ i \in DOMAIN entries'
                         /\ entries'[i].fingerprint = entries[i].fingerprint
                      \/ AbandonUnstarted(i, entries[i].fingerprint)
    BY DEF ledgerVars
  <2>1. ASSUME NEW id, NEW given, Begin(id, given)
        PROVE  i \in DOMAIN entries' /\ entries'[i].fingerprint = entries[i].fingerprint
    <3>1. i \in Retained
      BY DEF Retained
    <3> QED
      BY <2>1, <3>1, BeginKeeps
  <2>2. ASSUME NEW id, NEW s, NEW v, SetStatus(id, s, v)
        PROVE  i \in DOMAIN entries' /\ entries'[i].fingerprint = entries[i].fingerprint
    BY <2>2 DEF SetStatus
  <2>3. ASSUME NEW id, NEW given, AbandonUnstarted(id, given)
        PROVE  \/ /\ i \in DOMAIN entries'
                  /\ entries'[i].fingerprint = entries[i].fingerprint
               \/ AbandonUnstarted(i, entries[i].fingerprint)
    <3>1. CASE i = id
      BY <2>3, <3>1 DEF AbandonUnstarted, Removable
    <3>2. CASE i # id
      BY <2>3, <3>2 DEF AbandonUnstarted
    <3> QED
      BY <3>1, <3>2
  <2>4. CASE Tick
    BY <2>4 DEF Tick
  <2> QED
    BY <2>1, <2>2, <2>3, <2>4 DEF LedgerNext, Complete, MarkUnknown
<1> QED
  BY <1>1, LedgerTypeCorrect, PTL DEF LedgerSpec, InFlightSurvives

\* A recorded outcome is forgotten only after a whole TTL without a retry.
THEOREM RecordedIsKept == LedgerSpec => RecordedUntilIdle
<1>1. LedgerTypeOK /\ [LedgerNext]_ledgerVars =>
        [\A id \in DOMAIN entries :
           (id \notin DOMAIN entries' /\ entries[id].status # "InFlight")
             => now - entries[id].touched >= Ttl]_ledgerVars
  <2> SUFFICES ASSUME LedgerTypeOK, LedgerNext, NEW i \in DOMAIN entries,
                      i \notin DOMAIN entries', entries[i].status # "InFlight"
               PROVE  now - entries[i].touched >= Ttl
    BY DEF ledgerVars
  <2>1. ASSUME NEW id, NEW given, Begin(id, given)
        PROVE  now - entries[i].touched >= Ttl
    <3>1. i \notin Retained
      BY <2>1, BeginKeeps
    <3>2. ~(now - entries[i].touched < Ttl)
      BY <3>1 DEF Retained
    <3>3. now \in Nat /\ entries[i].touched \in Nat
      BY DEF LedgerTypeOK, Entry
    <3> QED
      BY <3>2, <3>3, LedgerAssumption
  <2>2. ASSUME NEW id, NEW s, NEW v, SetStatus(id, s, v)
        PROVE  FALSE
    BY <2>2 DEF SetStatus
  <2>3. ASSUME NEW id, NEW given, AbandonUnstarted(id, given)
        PROVE  FALSE
    BY <2>3 DEF AbandonUnstarted, Removable
  <2>4. CASE Tick
    BY <2>4 DEF Tick
  <2> QED
    BY <2>1, <2>2, <2>3, <2>4 DEF LedgerNext, Complete, MarkUnknown
<1> QED
  BY <1>1, LedgerTypeCorrect, PTL DEF LedgerSpec, RecordedUntilIdle

\* A retry finds what the ledger owes it: the two facts above together.
THEOREM EntriesAreAlwaysKept == LedgerSpec => EntriesAreKept
  BY InFlightIsKept, RecordedIsKept DEF EntriesAreKept

-----------------------------------------------------------------------------
(* Type correctness, component by component.                               *)

\* Leaving one list element out keeps the list's type and does not lengthen it.
LEMMA RemoveAtType ==
  ASSUME NEW S, NEW s \in Seq(S), NEW i \in 1..Len(s)
  PROVE  RemoveAt(s, i) \in Seq(S) /\ Len(RemoveAt(s, i)) <= Len(s)
<1> DEFINE a == SubSeq(s, 1, i - 1)
           b == SubSeq(s, i + 1, Len(s))
<1>1. a \in Seq(S) /\ Len(a) = i - 1
  OBVIOUS
<1>2. b \in Seq(S) /\ Len(b) = Len(s) - i
  OBVIOUS
<1>3. RemoveAt(s, i) = a \o b
  BY DEF RemoveAt
<1> HIDE DEF a, b
<1>4. a \o b \in Seq(S) /\ Len(a \o b) = Len(a) + Len(b)
  BY <1>1, <1>2
<1> QED
  BY <1>1, <1>2, <1>3, <1>4

\* The initial state of established() is well typed.
LEMMA TypeInit == AdapterInit => AdapterTypeOK
<1> SUFFICES ASSUME AdapterInit PROVE AdapterTypeOK
  OBVIOUS
<1>1. LedgerTypeOK
  BY LedgerInitType DEF AdapterInit
<1>2. FuturesTypeOK
  BY DEF AdapterInit, FuturesTypeOK, Stage, Result
<1>3. ConnectionTypeOK
  BY AdapterAssumption DEF AdapterInit, ConnectionTypeOK
<1>4. PipeTypeOK
  BY DEF AdapterInit, PipeTypeOK
<1>5. HistoryTypeOK
  BY DEF AdapterInit, HistoryTypeOK
<1> QED
  BY <1>1, <1>2, <1>3, <1>4, <1>5 DEF AdapterTypeOK

\* What a refused mutation returns is a proper result.
LEMMA RefusalType ==
  ASSUME LedgerTypeOK, RecordsAreHonest, NEW id, NEW f, ~MayStart(Admission(id, f))
  PROVE  Refusal(Admission(id, f), id) \in Result
<1>1. Admission(id, f) \in {"InFlight", "Completed", "Unknown", "Conflict", "Capacity"}
  <2>1. \A i \in Retained : entries[i].status \in {"InFlight", "Completed", "Unknown"}
    BY DEF Retained, LedgerTypeOK, Entry
  <2> QED
    BY <2>1 DEF Admission, MayStart
<1>2. Admission(id, f) = "Completed" => entries[id].value \in Answer
  BY DEF Admission, Retained, RecordsAreHonest
<1> QED
  BY <1>1, <1>2 DEF Refusal, Result, Answer

\* Releasing the stream keeps its type.
LEMMA ReleaseType ==
  ASSUME ConnectionTypeOK, NEW c, Release(c), UNCHANGED <<ready, abandoned>>
  PROVE  ConnectionTypeOK'
BY DEF ConnectionTypeOK, Release

\* A torn read or write leaves sequences of frames in the pipe.
LEMMA TearType ==
  ASSUME PipeTypeOK, NEW c, Tear(c), UNCHANGED pipeOpen
  PROVE  PipeTypeOK'
<1>1. CASE UNCHANGED <<toPlugin, toSidecar>>
  BY <1>1 DEF PipeTypeOK
<1>2. CASE toPlugin' = Append(toPlugin, NoRequest) /\ UNCHANGED toSidecar
  BY <1>2 DEF PipeTypeOK
<1>3. CASE Arrived(c) /\ toSidecar' = <<Torn>> \o Tail(toSidecar) /\ UNCHANGED toPlugin
  <2>1. Torn \in Frame
    BY DEF Torn, Frame, Answer
  <2>2. Tail(toSidecar) \in Seq(Frame)
    BY <1>3 DEF Arrived, PipeTypeOK
  <2>3. <<Torn>> \o Tail(toSidecar) \in Seq(Frame)
    BY <2>1, <2>2
  <2> QED
    BY <1>3, <2>3 DEF PipeTypeOK
<1> QED
  BY <1>1, <1>2, <1>3 DEF Tear
\* The parts of the state that a step does not mention keep their type.
LEMMA UnchangedTypes ==
  /\ LedgerTypeOK /\ UNCHANGED ledgerVars => LedgerTypeOK'
  /\ ConnectionTypeOK /\ UNCHANGED <<ready, stream, abandoned>> => ConnectionTypeOK'
  /\ PipeTypeOK /\ UNCHANGED pipeVars => PipeTypeOK'
  /\ HistoryTypeOK /\ UNCHANGED ghostVars => HistoryTypeOK'
BY DEF ledgerVars, LedgerTypeOK, ConnectionTypeOK, pipeVars, PipeTypeOK, ghostVars,
       HistoryTypeOK

\* A call that moves on keeps the types of all futures.
LEMMA MoveType ==
  ASSUME FuturesTypeOK, NEW c \in Request, NEW w \in Stage, Goto(c, w),
         UNCHANGED <<op, fp>>,
         result' = result \/ \E r \in Result : Learn(c, r)
  PROVE  FuturesTypeOK'
BY DEF FuturesTypeOK, Goto, Learn

\* Every step keeps AdapterTypeOK.
LEMMA TypeStep ==
  ASSUME AdapterTypeOK, EntryHasOwner, RecordsAreHonest, [AdapterNext]_adapterVars
  PROVE  AdapterTypeOK'
<1>0. /\ LedgerTypeOK
      /\ FuturesTypeOK
      /\ ConnectionTypeOK
      /\ PipeTypeOK
      /\ HistoryTypeOK
  BY DEF AdapterTypeOK
<1>s. /\ Stage = {"idle", "admitted", "queued", "writing", "reading", "answered",
                  "failing", "dropping", "returned"}
      /\ Answer \subseteq Result
      /\ {"timeout", "io", "mismatch", "cancelled", "unavailable", "internal"}
           \subseteq Result
  BY DEF Stage, Result
<1>1. ASSUME NEW c \in Request, CallRead(c) PROVE AdapterTypeOK'
  <2>1. LedgerTypeOK'
    BY <1>0, <1>1, UnchangedTypes DEF CallRead
  <2>2. FuturesTypeOK'
    BY <1>0, <1>s, <1>1, MoveType DEF CallRead
  <2>3. ConnectionTypeOK'
    BY <1>0, <1>1, UnchangedTypes DEF CallRead
  <2>4. PipeTypeOK'
    BY <1>0, <1>1, UnchangedTypes DEF CallRead
  <2>5. HistoryTypeOK'
    BY <1>0, <1>1, UnchangedTypes DEF CallRead
  <2> QED
    BY <2>1, <2>2, <2>3, <2>4, <2>5 DEF AdapterTypeOK
<1>2. ASSUME NEW c \in Request, NEW id \in OperationId, NEW f \in Fingerprint,
             CallMutation(c, id, f) PROVE AdapterTypeOK'
  <2>1. LedgerTypeOK'
    BY <1>0, <1>s, <1>2, BeginType DEF CallMutation
  <2>2. FuturesTypeOK'
    <3>1. call' \in [Request -> Stage]
      BY <1>0, <1>s, <1>2 DEF CallMutation, Goto, FuturesTypeOK
    <3>2. result' \in [Request -> Result]
      BY <1>0, <1>s, <1>2, RefusalType DEF CallMutation, Learn, FuturesTypeOK
    <3> QED
      BY <1>0, <1>s, <1>2, <3>1, <3>2 DEF CallMutation, FuturesTypeOK
  <2>3. ConnectionTypeOK'
    BY <1>0, <1>2, UnchangedTypes DEF CallMutation
  <2>4. PipeTypeOK'
    BY <1>0, <1>2, UnchangedTypes DEF CallMutation
  <2>5. HistoryTypeOK'
    <3>1. owner' \in [OperationId -> Request \cup {NoRequest}]
      BY <1>0, <1>s, <1>2 DEF CallMutation, HistoryTypeOK
    <3>2. Evicted \subseteq OperationId
      BY <1>0 DEF Evicted, LedgerTypeOK
    <3>3. \A i \in Evicted : owner[i] \in Request
      BY DEF Evicted, EntryHasOwner
    <3> QED
      BY <1>0, <1>s, <1>2, <3>1, <3>3 DEF CallMutation, HistoryTypeOK
  <2> QED
    BY <2>1, <2>2, <2>3, <2>4, <2>5 DEF AdapterTypeOK
<1>3. ASSUME NEW c \in Request, PassReadyCheck(c) PROVE AdapterTypeOK'
  <2>1. LedgerTypeOK'
    BY <1>0, <1>3, UnchangedTypes DEF PassReadyCheck
  <2>2. FuturesTypeOK'
    BY <1>0, <1>s, <1>3, MoveType DEF PassReadyCheck
  <2>3. ConnectionTypeOK'
    BY <1>0, <1>3, UnchangedTypes DEF PassReadyCheck
  <2>4. PipeTypeOK'
    BY <1>0, <1>3, UnchangedTypes DEF PassReadyCheck
  <2>5. HistoryTypeOK'
    BY <1>0, <1>3, UnchangedTypes DEF PassReadyCheck
  <2> QED
    BY <2>1, <2>2, <2>3, <2>4, <2>5 DEF AdapterTypeOK
<1>4. ASSUME NEW c \in Request, FailReadyCheck(c) PROVE AdapterTypeOK'
  <2>1. LedgerTypeOK'
    BY <1>0, <1>s, <1>4, AbandonType, UnchangedTypes DEF FailReadyCheck
  <2>2. FuturesTypeOK'
    BY <1>0, <1>s, <1>4, MoveType DEF FailReadyCheck
  <2>3. ConnectionTypeOK'
    BY <1>0, <1>4, UnchangedTypes DEF FailReadyCheck
  <2>4. PipeTypeOK'
    BY <1>0, <1>4, UnchangedTypes DEF FailReadyCheck
  <2>5. HistoryTypeOK'
    BY <1>0, <1>4, UnchangedTypes DEF FailReadyCheck
  <2> QED
    BY <2>1, <2>2, <2>3, <2>4, <2>5 DEF AdapterTypeOK
<1>5. ASSUME NEW c \in Request, AcquireStream(c) PROVE AdapterTypeOK'
  <2>1. LedgerTypeOK'
    BY <1>0, <1>5, UnchangedTypes DEF AcquireStream
  <2>2. FuturesTypeOK'
    BY <1>0, <1>s, <1>5, MoveType DEF AcquireStream
  <2>3. ConnectionTypeOK'
    BY <1>0, <1>s, <1>5 DEF AcquireStream, ConnectionTypeOK
  <2>4. PipeTypeOK'
    BY <1>0, <1>5, UnchangedTypes DEF AcquireStream
  <2>5. HistoryTypeOK'
    BY <1>0, <1>5, UnchangedTypes DEF AcquireStream
  <2> QED
    BY <2>1, <2>2, <2>3, <2>4, <2>5 DEF AdapterTypeOK
<1>6. ASSUME NEW c \in Request, WriteRequest(c) PROVE AdapterTypeOK'
  <2>1. LedgerTypeOK'
    BY <1>0, <1>6, UnchangedTypes DEF WriteRequest
  <2>2. FuturesTypeOK'
    BY <1>0, <1>s, <1>6, MoveType DEF WriteRequest
  <2>3. ConnectionTypeOK'
    BY <1>0, <1>6, UnchangedTypes DEF WriteRequest
  <2>4. PipeTypeOK'
    BY <1>0, <1>s, <1>6 DEF WriteRequest, PipeTypeOK
  <2>5. HistoryTypeOK'
    BY <1>0, <1>s, <1>6 DEF WriteRequest, HistoryTypeOK
  <2> QED
    BY <2>1, <2>2, <2>3, <2>4, <2>5 DEF AdapterTypeOK
<1>7. ASSUME NEW c \in Request, ReadOwn(c) PROVE AdapterTypeOK'
  <2>1. LedgerTypeOK'
    BY <1>0, <1>7, UnchangedTypes DEF ReadOwn
  <2>2. FuturesTypeOK'
    <3>1. Head(toSidecar) \in Frame
      BY <1>0, <1>s, <1>7 DEF ReadOwn, Arrived, PipeTypeOK
    <3>2. Head(toSidecar).answer \in Result
      BY <1>s, <3>1 DEF Frame
    <3> QED
      BY <1>0, <1>s, <1>7, <3>2, MoveType DEF ReadOwn
  <2>3. ConnectionTypeOK'
    BY <1>0, <1>s, <1>7 DEF ReadOwn, ConnectionTypeOK
  <2>4. PipeTypeOK'
    BY <1>0, <1>s, <1>7 DEF ReadOwn, Arrived, PipeTypeOK
  <2>5. HistoryTypeOK'
    BY <1>0, <1>7, UnchangedTypes DEF ReadOwn
  <2> QED
    BY <2>1, <2>2, <2>3, <2>4, <2>5 DEF AdapterTypeOK
<1>8. ASSUME NEW c \in Request, DrainStale(c) PROVE AdapterTypeOK'
  <2>1. LedgerTypeOK'
    BY <1>0, <1>8, UnchangedTypes DEF DrainStale
  <2>2. FuturesTypeOK'
    BY <1>0, <1>s, <1>8 DEF DrainStale, futureVars, FuturesTypeOK
  <2>3. ConnectionTypeOK'
    <3>1. PICK i \in 1..Len(abandoned) : abandoned' = RemoveAt(abandoned, i)
      BY <1>8 DEF DrainStale
    <3>2. abandoned \in Seq(Request) /\ Len(abandoned) <= AbandonedCapacity
      BY <1>0 DEF ConnectionTypeOK
    <3>3. abandoned' \in Seq(Request) /\ Len(abandoned') <= Len(abandoned)
      BY <3>1, <3>2, RemoveAtType
    <3>4. Len(abandoned') <= AbandonedCapacity
      BY <3>2, <3>3, AdapterAssumption
    <3> QED
      BY <1>0, <1>s, <1>8, <3>3, <3>4 DEF DrainStale, ConnectionTypeOK
  <2>4. PipeTypeOK'
    BY <1>0, <1>s, <1>8 DEF DrainStale, Arrived, PipeTypeOK
  <2>5. HistoryTypeOK'
    BY <1>0, <1>8, UnchangedTypes DEF DrainStale
  <2> QED
    BY <2>1, <2>2, <2>3, <2>4, <2>5 DEF AdapterTypeOK
<1>9. ASSUME NEW c \in Request, ReadForeign(c) PROVE AdapterTypeOK'
  <2>1. LedgerTypeOK'
    BY <1>0, <1>9, UnchangedTypes DEF ReadForeign
  <2>2. FuturesTypeOK'
    BY <1>0, <1>s, <1>9, MoveType DEF ReadForeign
  <2>3. ConnectionTypeOK'
    BY <1>0, <1>s, <1>9, ReleaseType DEF ReadForeign
  <2>4. PipeTypeOK'
    BY <1>0, <1>s, <1>9 DEF ReadForeign, Arrived, PipeTypeOK
  <2>5. HistoryTypeOK'
    BY <1>0, <1>9, UnchangedTypes DEF ReadForeign
  <2> QED
    BY <2>1, <2>2, <2>3, <2>4, <2>5 DEF AdapterTypeOK
<1>10. ASSUME NEW c \in Request, ExchangeError(c) PROVE AdapterTypeOK'
  <2>1. LedgerTypeOK'
    BY <1>0, <1>10, UnchangedTypes DEF ExchangeError
  <2>2. FuturesTypeOK'
    BY <1>0, <1>s, <1>10, MoveType DEF ExchangeError
  <2>3. ConnectionTypeOK'
    BY <1>0, <1>s, <1>10, ReleaseType DEF ExchangeError
  <2>4. PipeTypeOK'
    BY <1>0, <1>10, UnchangedTypes DEF ExchangeError
  <2>5. HistoryTypeOK'
    BY <1>0, <1>10, UnchangedTypes DEF ExchangeError
  <2> QED
    BY <2>1, <2>2, <2>3, <2>4, <2>5 DEF AdapterTypeOK
<1>11. ASSUME NEW c \in Request, Timeout(c) PROVE AdapterTypeOK'
  <2>1. LedgerTypeOK'
    BY <1>0, <1>11, UnchangedTypes DEF Timeout
  <2>2. FuturesTypeOK'
    BY <1>0, <1>s, <1>11, MoveType DEF Timeout
  <2>3. ConnectionTypeOK'
    BY <1>0, <1>s, <1>11, ReleaseType DEF Timeout
  <2>4. PipeTypeOK'
    BY <1>0, <1>s, <1>11, TearType DEF Timeout
  <2>5. HistoryTypeOK'
    BY <1>0, <1>11, UnchangedTypes DEF Timeout
  <2> QED
    BY <2>1, <2>2, <2>3, <2>4, <2>5 DEF AdapterTypeOK
<1>12. ASSUME NEW c \in Request, Cancel(c) PROVE AdapterTypeOK'
  <2>1. LedgerTypeOK'
    BY <1>0, <1>12, UnchangedTypes DEF Cancel
  <2>2. FuturesTypeOK'
    BY <1>0, <1>s, <1>12, MoveType DEF Cancel
  <2>3. ConnectionTypeOK'
    BY <1>0, <1>s, <1>12, ReleaseType DEF Cancel
  <2>4. PipeTypeOK'
    BY <1>0, <1>s, <1>12, TearType DEF Cancel
  <2>5. HistoryTypeOK'
    BY <1>0, <1>12, UnchangedTypes DEF Cancel
  <2> QED
    BY <2>1, <2>2, <2>3, <2>4, <2>5 DEF AdapterTypeOK
<1>13. ASSUME NEW c \in Request, Settle(c) PROVE AdapterTypeOK'
  <2>1. LedgerTypeOK'
    <3>1. CASE UNCHANGED ledgerVars
      BY <1>0, <3>1, UnchangedTypes
    <3>2. CASE Mutation(c) /\ Complete(op[c], result[c])
      <4>1. op[c] \in OperationId
        BY <1>0, <3>2 DEF Complete, SetStatus, LedgerTypeOK
      <4>2. result[c] \in Value
        BY <1>13, AdapterAssumption DEF Settle, RecordsAreHonest
      <4> QED
        BY <1>0, <3>2, <4>1, <4>2, SetStatusType DEF Complete
    <3> QED
      BY <1>13, <3>1, <3>2 DEF Settle
  <2>2. FuturesTypeOK'
    BY <1>0, <1>s, <1>13, MoveType DEF Settle
  <2>3. ConnectionTypeOK'
    BY <1>0, <1>13, UnchangedTypes DEF Settle
  <2>4. PipeTypeOK'
    BY <1>0, <1>13, UnchangedTypes DEF Settle
  <2>5. HistoryTypeOK'
    BY <1>0, <1>13, UnchangedTypes DEF Settle
  <2> QED
    BY <2>1, <2>2, <2>3, <2>4, <2>5 DEF AdapterTypeOK
<1>14. ASSUME NEW c \in Request, Fail(c) PROVE AdapterTypeOK'
  <2>1. LedgerTypeOK'
    <3>1. CASE UNCHANGED ledgerVars
      BY <1>0, <3>1, UnchangedTypes
    <3>2. CASE MarkUnknown(op[c])
      <4>1. op[c] \in OperationId
        BY <1>0, <3>2 DEF MarkUnknown, SetStatus, LedgerTypeOK
      <4> QED
        BY <1>0, <3>2, <4>1, SetStatusType DEF MarkUnknown
    <3> QED
      BY <1>14, <3>1, <3>2 DEF Fail
  <2>2. FuturesTypeOK'
    BY <1>0, <1>s, <1>14, MoveType DEF Fail
  <2>3. ConnectionTypeOK'
    BY <1>0, <1>s, <1>14 DEF Fail, ConnectionTypeOK
  <2>4. PipeTypeOK'
    BY <1>0, <1>14, UnchangedTypes DEF Fail
  <2>5. HistoryTypeOK'
    BY <1>0, <1>14, UnchangedTypes DEF Fail
  <2> QED
    BY <2>1, <2>2, <2>3, <2>4, <2>5 DEF AdapterTypeOK
<1>15. ASSUME NEW c \in Request, Remember(c) PROVE AdapterTypeOK'
  <2>1. LedgerTypeOK'
    BY <1>0, <1>15, UnchangedTypes DEF Remember
  <2>2. FuturesTypeOK'
    BY <1>0, <1>s, <1>15, MoveType DEF Remember
  <2>3. ConnectionTypeOK'
    <3>1. abandoned \in Seq(Request) /\ Len(abandoned) <= AbandonedCapacity
      BY <1>0 DEF ConnectionTypeOK
    <3>2. CASE Len(abandoned) = AbandonedCapacity
      <4>1. Tail(abandoned) \in Seq(Request) /\ Len(Tail(abandoned)) = Len(abandoned) - 1
        BY <3>1, <3>2, AdapterAssumption
      <4>2. abandoned' = Append(Tail(abandoned), c)
        BY <1>15, <3>2 DEF Remember
      <4>3. abandoned' \in Seq(Request) /\ Len(abandoned') = Len(abandoned)
        BY <4>1, <4>2
      <4> QED
        BY <1>0, <1>s, <1>15, <3>1, <4>3 DEF Remember, ConnectionTypeOK
    <3>3. CASE Len(abandoned) # AbandonedCapacity
      <4>1. abandoned' = Append(abandoned, c)
        BY <1>15, <3>3 DEF Remember
      <4>2. abandoned' \in Seq(Request) /\ Len(abandoned') = Len(abandoned) + 1
        BY <3>1, <4>1
      <4>3. Len(abandoned') <= AbandonedCapacity
        BY <3>1, <3>3, <4>2, AdapterAssumption
      <4> QED
        BY <1>0, <1>s, <1>15, <4>2, <4>3 DEF Remember, ConnectionTypeOK
    <3> QED
      BY <3>2, <3>3
  <2>4. PipeTypeOK'
    BY <1>0, <1>15, UnchangedTypes DEF Remember
  <2>5. HistoryTypeOK'
    BY <1>0, <1>15, UnchangedTypes DEF Remember
  <2> QED
    BY <2>1, <2>2, <2>3, <2>4, <2>5 DEF AdapterTypeOK
<1>16. ASSUME LedgerTick PROVE AdapterTypeOK'
  <2>1. LedgerTypeOK'
    BY <1>0, <1>s, <1>16, TickType DEF LedgerTick
  <2>2. FuturesTypeOK'
    BY <1>0, <1>s, <1>16 DEF LedgerTick, futureVars, FuturesTypeOK
  <2>3. ConnectionTypeOK'
    BY <1>0, <1>16, UnchangedTypes DEF LedgerTick
  <2>4. PipeTypeOK'
    BY <1>0, <1>16, UnchangedTypes DEF LedgerTick
  <2>5. HistoryTypeOK'
    BY <1>0, <1>16, UnchangedTypes DEF LedgerTick
  <2> QED
    BY <2>1, <2>2, <2>3, <2>4, <2>5 DEF AdapterTypeOK
<1>17. ASSUME NEW c \in Request, PluginApplies(c) PROVE AdapterTypeOK'
  <2>1. LedgerTypeOK'
    BY <1>0, <1>17, UnchangedTypes DEF PluginApplies
  <2>2. FuturesTypeOK'
    BY <1>0, <1>s, <1>17 DEF PluginApplies, futureVars, FuturesTypeOK
  <2>3. ConnectionTypeOK'
    BY <1>0, <1>17, UnchangedTypes DEF PluginApplies
  <2>4. PipeTypeOK'
    BY <1>0, <1>17, UnchangedTypes DEF PluginApplies
  <2>5. HistoryTypeOK'
    BY <1>0, <1>s, <1>17 DEF PluginApplies, HistoryTypeOK
  <2> QED
    BY <2>1, <2>2, <2>3, <2>4, <2>5 DEF AdapterTypeOK
<1>18. ASSUME NEW a \in Answer, PluginAnswers(a) PROVE AdapterTypeOK'
  <2>1. LedgerTypeOK'
    BY <1>0, <1>18, UnchangedTypes DEF PluginAnswers
  <2>2. FuturesTypeOK'
    BY <1>0, <1>s, <1>18 DEF PluginAnswers, futureVars, FuturesTypeOK
  <2>3. ConnectionTypeOK'
    BY <1>0, <1>18, UnchangedTypes DEF PluginAnswers
  <2>4. PipeTypeOK'
    <3>1. [id |-> Head(toPlugin), answer |-> a] \in Frame
      BY <1>0, <1>s, <1>18 DEF PluginAnswers, Frame, PipeTypeOK
    <3> QED
      BY <1>0, <1>s, <1>18, <3>1 DEF PluginAnswers, PipeTypeOK
  <2>5. HistoryTypeOK'
    BY <1>0, <1>18, UnchangedTypes DEF PluginAnswers
  <2> QED
    BY <2>1, <2>2, <2>3, <2>4, <2>5 DEF AdapterTypeOK
<1>19. ASSUME PluginCloses PROVE AdapterTypeOK'
  <2>1. LedgerTypeOK'
    BY <1>0, <1>19, UnchangedTypes DEF PluginCloses
  <2>2. FuturesTypeOK'
    BY <1>0, <1>s, <1>19 DEF PluginCloses, futureVars, FuturesTypeOK
  <2>3. ConnectionTypeOK'
    BY <1>0, <1>19, UnchangedTypes DEF PluginCloses
  <2>4. PipeTypeOK'
    <3>1. toPlugin' = <<>> /\ toSidecar' = <<>> /\ pipeOpen' = FALSE
      BY <1>19 DEF PluginCloses
    <3>2. pipeOpen' \in BOOLEAN
      BY <3>1
    <3>3. toPlugin' \in Seq(Request \cup {NoRequest}) /\ toSidecar' \in Seq(Frame)
      BY <3>1
    <3> QED
      BY <3>2, <3>3 DEF PipeTypeOK
  <2>5. HistoryTypeOK'
    BY <1>0, <1>19, UnchangedTypes DEF PluginCloses
  <2> QED
    BY <2>1, <2>2, <2>3, <2>4, <2>5 DEF AdapterTypeOK
<1>20. ASSUME UNCHANGED adapterVars PROVE AdapterTypeOK'
  <2>1. LedgerTypeOK'
    BY <1>0, <1>20, UnchangedTypes DEF adapterVars
  <2>2. FuturesTypeOK'
    BY <1>0, <1>s, <1>20 DEF adapterVars, futureVars, FuturesTypeOK
  <2>3. ConnectionTypeOK'
    BY <1>0, <1>20, UnchangedTypes DEF adapterVars
  <2>4. PipeTypeOK'
    BY <1>0, <1>20, UnchangedTypes DEF adapterVars
  <2>5. HistoryTypeOK'
    BY <1>0, <1>20, UnchangedTypes DEF adapterVars
  <2> QED
    BY <2>1, <2>2, <2>3, <2>4, <2>5 DEF AdapterTypeOK
<1> QED
  BY <1>1, <1>2, <1>3, <1>4, <1>5, <1>6, <1>7, <1>8, <1>9, <1>10,
     <1>11, <1>12, <1>13, <1>14, <1>15, <1>16, <1>17, <1>18, <1>19, <1>20
     DEF AdapterNext, Sidecar, Client, Progress, Plugin
-----------------------------------------------------------------------------
(* The inductive invariant.                                                *)

Active == {"admitted", "queued", "writing", "reading", "answered", "failing"}
Early == {"idle", "admitted", "queued", "writing"}

\* The conjuncts that a step of one call, which leaves the ledger and the
\* history alone, can disturb only through call[c] and result[c].
OwnershipInv ==
  /\ IdleIsFresh
  /\ Owned
  /\ EntryHasOwner
  /\ SentIsRemembered
  /\ SentIsPastWriting
  /\ AppliedWasSent
  /\ RecordsAreHonest

IInv == AdapterTypeOK /\ AdapterInv /\ OkIsTruthful /\ NoLostEntry

\* A call moves on without touching the ledger: it stays the owner of its entry.
LEMMA MoveKeepsOwnership ==
  ASSUME AdapterTypeOK, OwnershipInv, NEW c \in Request, NEW w \in Stage \ {"idle"},
         Goto(c, w),
         UNCHANGED <<entries, op, fp, sent, applied, owner, expired>>,
         w \in Active => call[c] \in Active \/ ~Mutation(c),
         w \in Early => call[c] \in Early,
         w # "answered",
         result' = result \/ \E r \in Result : Learn(c, r)
  PROVE  OwnershipInv'
<1> USE DEF OwnershipInv
<1>0. call \in [Request -> Stage] /\ result \in [Request -> Result] /\ sent \subseteq Request
  BY DEF AdapterTypeOK, FuturesTypeOK, HistoryTypeOK
<1>1. call'[c] = w /\ \A d \in Request : d # c => call'[d] = call[d]
  BY <1>0 DEF Goto
<1>2. \A d \in Request : d # c => result'[d] = result[d]
  BY <1>0 DEF Learn
<1>3. IdleIsFresh'
  BY <1>1, <1>2 DEF IdleIsFresh
<1>4. Owned'
  BY <1>1 DEF Owned, Mutation, Removable, Active
<1>5. EntryHasOwner'
  BY DEF EntryHasOwner
<1>6. SentIsRemembered'
  BY DEF SentIsRemembered, Mutation
<1>7. SentIsPastWriting'
  BY <1>0, <1>1 DEF SentIsPastWriting, Early
<1>8. AppliedWasSent'
  BY DEF AppliedWasSent, Mutation
<1>9. RecordsAreHonest'
  BY <1>1, <1>2 DEF RecordsAreHonest
<1> QED
  BY <1>3, <1>4, <1>5, <1>6, <1>7, <1>8, <1>9

\* Frames that stay in the pipe stay honest.
LEMMA FramesUnchanged ==
  ASSUME FramesAreHonest, UNCHANGED <<toPlugin, toSidecar, sent, op, applied>>
  PROVE  FramesAreHonest'
BY DEF FramesAreHonest, Mutation

\* Reading the first response leaves honest frames.
LEMMA FramesTail ==
  ASSUME PipeTypeOK, FramesAreHonest, toSidecar # <<>>, toSidecar' = Tail(toSidecar),
         UNCHANGED <<toPlugin, sent, op, applied>>
  PROVE  FramesAreHonest'
<1>1. /\ Len(toSidecar') = Len(toSidecar) - 1
      /\ Len(toSidecar) \in Nat
      /\ \A k \in 1..Len(toSidecar') : toSidecar'[k] = toSidecar[k + 1]
  BY DEF PipeTypeOK
<1>2. \A k \in 1..Len(toSidecar') : k + 1 \in 1..Len(toSidecar)
  BY <1>1
<1> QED
  BY <1>1, <1>2 DEF FramesAreHonest, Mutation

\* Tearing a frame replaces it by bytes that belong to no request.
LEMMA FramesTorn ==
  ASSUME PipeTypeOK, FramesAreHonest, NEW c, Tear(c), UNCHANGED <<sent, op, applied>>
  PROVE  FramesAreHonest'
<1>1. CASE UNCHANGED <<toPlugin, toSidecar>>
  BY <1>1, FramesUnchanged
<1>2. CASE toPlugin' = Append(toPlugin, NoRequest) /\ UNCHANGED toSidecar
  <2>1. /\ Len(toPlugin') = Len(toPlugin) + 1
        /\ Len(toPlugin) \in Nat
        /\ \A k \in 1..Len(toPlugin) : toPlugin'[k] = toPlugin[k]
        /\ toPlugin'[Len(toPlugin) + 1] = NoRequest
    BY <1>2 DEF PipeTypeOK
  <2>2. \A k \in 1..Len(toPlugin') : k \in 1..Len(toPlugin) \/ k = Len(toPlugin) + 1
    BY <2>1
  <2>3. \A k \in 1..Len(toPlugin') : toPlugin'[k] \in sent' \cup {NoRequest}
    BY <2>1, <2>2 DEF FramesAreHonest
  <2> QED
    BY <1>2, <2>3 DEF FramesAreHonest, Mutation
<1>3. CASE Arrived(c) /\ toSidecar' = <<Torn>> \o Tail(toSidecar) /\ UNCHANGED toPlugin
  <2>1. Torn.id = NoRequest /\ Torn \in Frame
    BY DEF Torn, Frame, Answer
  <2> DEFINE rest == Tail(toSidecar)
  <2>2. /\ rest \in Seq(Frame)
        /\ Len(rest) = Len(toSidecar) - 1
        /\ Len(toSidecar) \in Nat
        /\ \A k \in 1..Len(rest) : rest[k] = toSidecar[k + 1]
    BY <1>3 DEF Arrived, PipeTypeOK
  <2> HIDE DEF rest
  <2>3. /\ Len(<<Torn>> \o rest) = Len(rest) + 1
        /\ (<<Torn>> \o rest)[1] = Torn
        /\ \A k \in 2..(Len(rest) + 1) : (<<Torn>> \o rest)[k] = rest[k - 1]
    BY <2>1, <2>2
  <2>4. toSidecar' = <<Torn>> \o rest
    BY <1>3 DEF rest
  <2>5. /\ Len(toSidecar') = Len(toSidecar)
        /\ toSidecar'[1] = Torn
        /\ \A k \in 2..Len(toSidecar) : toSidecar'[k] = toSidecar[k]
    BY <2>2, <2>3, <2>4
  <2>6. \A k \in 1..Len(toSidecar') :
          toSidecar'[k] = toSidecar[k] \/ toSidecar'[k] = Torn
    BY <2>2, <2>5
  <2> QED
    BY <1>3, <2>1, <2>5, <2>6, RequestAssumption DEF FramesAreHonest, Mutation
<1> QED
  BY <1>1, <1>2, <1>3 DEF Tear
\* A step that leaves the ledger, the futures and the history alone.
LEMMA OwnershipUnchanged ==
  ASSUME OwnershipInv, UNCHANGED <<entries, futureVars, ghostVars>>
  PROVE  OwnershipInv'
<1> USE DEF OwnershipInv, futureVars, ghostVars
<1>1. IdleIsFresh'
  BY DEF IdleIsFresh
<1>2. Owned'
  BY DEF Owned, Mutation, Removable
<1>3. EntryHasOwner'
  BY DEF EntryHasOwner
<1>4. SentIsRemembered' /\ SentIsPastWriting' /\ AppliedWasSent'
  BY DEF SentIsRemembered, SentIsPastWriting, AppliedWasSent, Mutation
<1>5. RecordsAreHonest'
  BY DEF RecordsAreHonest
<1> QED
  BY <1>1, <1>2, <1>3, <1>4, <1>5

\* What calls have been told stays true when nobody is told "ok" or "internal".
LEMMA ResultsKept ==
  ASSUME AdapterTypeOK, OkIsTruthful, NoLostEntry, NEW c \in Request,
         UNCHANGED <<op, fp>>, applied \subseteq applied',
         result' = result \/ \E r \in Result \ {"ok", "internal"} : Learn(c, r)
  PROVE  OkIsTruthful' /\ NoLostEntry'
<1>1. result \in [Request -> Result]
  BY DEF AdapterTypeOK, FuturesTypeOK
<1>2. \A d \in Request : result'[d] = result[d] \/ result'[d] \notin {"ok", "internal"}
  BY <1>1 DEF Learn
<1>3. NoLostEntry'
  BY <1>2 DEF NoLostEntry
<1>4. OkIsTruthful'
  BY <1>2 DEF OkIsTruthful, Mutation
<1> QED
  BY <1>3, <1>4

\* The call that settles owns the entry it settles: nobody else's is disturbed.
LEMMA SettlingKeepsOwnership ==
  ASSUME AdapterTypeOK, OwnershipInv, OkIsTruthful, NEW c \in Request, Mutation(c),
         NEW w \in {"returned", "dropping"}, Goto(c, w),
         UNCHANGED <<op, fp, result, sent, applied, owner, expired>>,
         \/ call[c] = "answered" /\ SetStatus(op[c], "Completed", result[c])
         \/ call[c] = "failing" /\ SetStatus(op[c], "Unknown", NoValue)
  PROVE  OwnershipInv'
<1> USE DEF OwnershipInv
<1>0. call \in [Request -> Stage] /\ sent \subseteq Request
  BY DEF AdapterTypeOK, FuturesTypeOK, HistoryTypeOK
<1>1. call'[c] = w /\ \A d \in Request : d # c => call'[d] = call[d]
  BY <1>0 DEF Goto
<1>2. /\ op[c] \in DOMAIN entries
      /\ owner[op[c]] = c
      /\ entries[op[c]].fingerprint = fp[c]
  BY DEF Owned, Removable
<1>3. /\ DOMAIN entries' = DOMAIN entries
      /\ \A o \in DOMAIN entries : o # op[c] => entries'[o] = entries[o]
      /\ entries'[op[c]].fingerprint = entries[op[c]].fingerprint
      /\ \/ /\ entries'[op[c]].status = "Completed"
            /\ entries'[op[c]].value = result[c]
            /\ call[c] = "answered"
         \/ entries'[op[c]].status = "Unknown"
  BY <1>2 DEF SetStatus
<1>4. IdleIsFresh'
  BY <1>1 DEF IdleIsFresh
<1>5. Owned'
  <2> SUFFICES ASSUME NEW d \in Request, Mutation(d)', call'[d] \in Active
               PROVE  Removable(op[d], fp[d])' /\ owner'[op'[d]] = d
    BY DEF Owned, Active
  <2>1. d # c
    BY <1>1 DEF Active
  <2>2. Removable(op[d], fp[d]) /\ owner[op[d]] = d
    BY <1>1, <2>1 DEF Owned, Active, Mutation
  <2>3. op[d] # op[c]
    BY <1>2, <2>1, <2>2
  <2> QED
    BY <1>3, <2>2, <2>3 DEF Removable
<1>6. EntryHasOwner'
  BY <1>3 DEF EntryHasOwner
<1>7. SentIsRemembered' /\ AppliedWasSent'
  BY <1>3 DEF SentIsRemembered, AppliedWasSent, Mutation
<1>8. SentIsPastWriting'
  BY <1>0, <1>1 DEF SentIsPastWriting
<1>9. RecordsAreHonest'
  <2>1. \A d \in Request : call'[d] = "answered" => result'[d] \in Answer
    BY <1>1 DEF RecordsAreHonest
  <2>2. ASSUME NEW o \in DOMAIN entries', entries'[o].status = "Completed"
        PROVE  /\ entries'[o].value \in Answer
               /\ entries'[o].value = "ok" =>
                    \E d \in applied' : op'[d] = o /\ fp'[d] = entries'[o].fingerprint
    <3>1. CASE o # op[c]
      BY <1>3, <2>2, <3>1 DEF RecordsAreHonest
    <3>2. CASE o = op[c]
      <4>1. entries'[o].value = result[c] /\ result[c] \in Answer
        BY <1>3, <2>2, <3>2 DEF RecordsAreHonest
      <4>2. result[c] = "ok" => \E d \in applied : op[d] = op[c] /\ fp[d] = fp[c]
        BY DEF OkIsTruthful
      <4> QED
        BY <1>2, <1>3, <3>2, <4>1, <4>2
    <3> QED
      BY <3>1, <3>2
  <2> QED
    BY <2>1, <2>2 DEF RecordsAreHonest
<1> QED
  BY <1>4, <1>5, <1>6, <1>7, <1>8, <1>9

\* An admission withdrawn before anything was sent takes only its own entry.
LEMMA WithdrawalKeepsOwnership ==
  ASSUME AdapterTypeOK, OwnershipInv, NEW c \in Request, Mutation(c),
         call[c] = "admitted", Goto(c, "returned"), AbandonUnstarted(op[c], fp[c]),
         Learn(c, "unavailable"),
         UNCHANGED <<op, fp, sent, applied, owner, expired>>
  PROVE  OwnershipInv'
<1> USE DEF OwnershipInv
<1>0. call \in [Request -> Stage] /\ sent \subseteq Request /\ result \in [Request -> Result]
  BY DEF AdapterTypeOK, FuturesTypeOK, HistoryTypeOK
<1>1. /\ call'[c] = "returned"
      /\ \A d \in Request : d # c => call'[d] = call[d] /\ result'[d] = result[d]
  BY <1>0 DEF Goto, Learn
<1>2. owner[op[c]] = c /\ c \notin sent
  BY DEF Owned, SentIsPastWriting
<1>3. /\ DOMAIN entries' = DOMAIN entries \ {op[c]}
      /\ \A o \in DOMAIN entries' : entries'[o] = entries[o]
  BY DEF AbandonUnstarted
<1>4. IdleIsFresh'
  BY <1>1 DEF IdleIsFresh
<1>5. Owned'
  <2> SUFFICES ASSUME NEW d \in Request, Mutation(d)', call'[d] \in Active
               PROVE  Removable(op[d], fp[d])' /\ owner'[op'[d]] = d
    BY DEF Owned, Active
  <2>1. d # c
    BY <1>1 DEF Active
  <2>2. Removable(op[d], fp[d]) /\ owner[op[d]] = d
    BY <1>1, <2>1 DEF Owned, Active, Mutation
  <2>3. op[d] # op[c]
    BY <1>2, <2>1, <2>2
  <2> QED
    BY <1>3, <2>2, <2>3 DEF Removable
<1>6. EntryHasOwner'
  BY <1>3 DEF EntryHasOwner
<1>7. SentIsRemembered'
  BY <1>2, <1>3 DEF SentIsRemembered, Mutation
<1>8. SentIsPastWriting' /\ AppliedWasSent'
  BY <1>0, <1>1 DEF SentIsPastWriting, AppliedWasSent, Mutation
<1>9. RecordsAreHonest'
  BY <1>1, <1>3 DEF RecordsAreHonest
<1> QED
  BY <1>4, <1>5, <1>6, <1>7, <1>8, <1>9
\* Admission: begin() gives the call an entry of its own or refuses it, and
\* forgets only entries whose owners are from then on counted as expired.
LEMMA AdmissionKeepsInv ==
  ASSUME IInv, NEW c \in Request, NEW id \in OperationId, NEW f \in Fingerprint,
         CallMutation(c, id, f)
  PROVE  OwnershipInv' /\ FramesAreHonest' /\ OkIsTruthful' /\ NoLostEntry'
<1> USE DEF IInv, AdapterInv
<1>0. /\ call \in [Request -> Stage] /\ result \in [Request -> Result]
      /\ op \in [Request -> OperationId \cup {NoOperation}]
      /\ fp \in [Request -> Fingerprint \cup {NoOperation}]
      /\ owner \in [OperationId -> Request \cup {NoRequest}]
      /\ sent \subseteq Request /\ applied \subseteq Request
      /\ LedgerTypeOK
      /\ DOMAIN entries \subseteq OperationId
  BY DEF AdapterTypeOK, FuturesTypeOK, HistoryTypeOK, LedgerTypeOK
<1> DEFINE verdict == Admission(id, f)
           fresh == MayStart(verdict)
<1>1. /\ op'[c] = id /\ fp'[c] = f
      /\ call'[c] = IF fresh THEN "admitted" ELSE "returned"
      /\ result'[c] = IF fresh THEN result[c] ELSE Refusal(verdict, id)
      /\ \A d \in Request : d # c =>
           /\ op'[d] = op[d] /\ fp'[d] = fp[d]
           /\ call'[d] = call[d] /\ result'[d] = result[d]
      /\ \A o \in OperationId : owner'[o] = IF fresh /\ o = id THEN c ELSE owner[o]
      /\ UNCHANGED <<sent, applied, toPlugin, toSidecar>>
  BY <1>0 DEF CallMutation, Goto, Learn, pipeVars
<1>2. /\ call[c] = "idle" /\ op[c] = NoOperation /\ result[c] = "none"
      /\ c \notin sent /\ c \notin applied
  BY DEF CallMutation, IdleIsFresh, SentIsPastWriting, AppliedWasSent
<1>3. \A o \in DOMAIN entries : owner[o] # c
  BY <1>0, <1>2, AdapterAssumption DEF EntryHasOwner
<1>4. \A o \in Retained :
        /\ o \in DOMAIN entries /\ o \in DOMAIN entries'
        /\ entries'[o].fingerprint = entries[o].fingerprint
        /\ entries'[o].status = entries[o].status
        /\ entries'[o].value = entries[o].value
  BY <1>0, BeginKeeps DEF CallMutation
<1>5. fresh => /\ id \notin Retained
               /\ DOMAIN entries' = Retained \cup {id}
               /\ entries'[id] = Admitted(f)
  <2>1. \A o \in Retained : entries[o].status # "Started"
    BY <1>0 DEF Retained, LedgerTypeOK, Entry
  <2>2. fresh => id \notin Retained
    BY <2>1 DEF MayStart, Admission
  <2> QED
    BY <2>2 DEF CallMutation, Begin, MayStart
<1>6. ~fresh => DOMAIN entries' = Retained
  BY DEF CallMutation, Begin, MayStart
<1>7. \A o \in DOMAIN entries \ Retained : owner[o] \in expired'
  BY DEF CallMutation, Evicted
<1>8. expired \subseteq expired'
  BY DEF CallMutation
<1>9. verdict = "Completed" =>
        id \in Retained /\ entries[id].status = "Completed" /\ entries[id].fingerprint = f
  BY DEF Admission
<1> HIDE DEF fresh, verdict
<1>10. IdleIsFresh'
  BY <1>1 DEF IdleIsFresh
<1>11. Owned'
  <2> SUFFICES ASSUME NEW d \in Request, Mutation(d)', call'[d] \in Active
               PROVE  Removable(op[d], fp[d])' /\ owner'[op'[d]] = d
    BY DEF Owned, Active
  <2>1. CASE d = c
    <3>1. fresh
      BY <1>1, <2>1 DEF Active
    <3> QED
      BY <1>1, <1>5, <2>1, <3>1 DEF Removable, Admitted
  <2>2. CASE d # c
    <3>1. Removable(op[d], fp[d]) /\ owner[op[d]] = d
      BY <1>1, <2>2 DEF Owned, Active, Mutation
    <3>2. op[d] \in Retained
      BY <3>1 DEF Removable, Retained
    <3>3. op[d] \in OperationId /\ (fresh => op[d] # id)
      BY <1>0, <1>5, <3>1, <3>2 DEF Removable
    <3> QED
      BY <1>1, <1>4, <2>2, <3>1, <3>2, <3>3 DEF Removable
  <2> QED
    BY <2>1, <2>2
<1>12. EntryHasOwner'
  <2> SUFFICES ASSUME NEW o \in DOMAIN entries'
               PROVE  /\ owner'[o] \in Request
                      /\ op'[owner'[o]] = o
                      /\ fp'[owner'[o]] = entries'[o].fingerprint
    BY DEF EntryHasOwner
  <2>1. CASE o \in Retained
    <3>1. /\ owner[o] \in Request /\ op[owner[o]] = o
          /\ fp[owner[o]] = entries[o].fingerprint /\ owner[o] # c
      BY <1>3, <1>4, <2>1 DEF EntryHasOwner
    <3>2. o \in OperationId /\ (fresh => o # id)
      BY <1>0, <1>4, <1>5, <2>1
    <3> QED
      BY <1>1, <1>4, <2>1, <3>1, <3>2
  <2>2. CASE o \notin Retained
    <3>1. fresh /\ o = id
      BY <1>5, <1>6, <2>2
    <3> QED
      BY <1>1, <1>5, <3>1 DEF Admitted
  <2> QED
    BY <2>1, <2>2
<1>13. SentIsRemembered'
  <2> SUFFICES ASSUME NEW d \in sent' \ expired', Mutation(d)'
               PROVE  op'[d] \in DOMAIN entries' /\ owner'[op'[d]] = d
    BY DEF SentIsRemembered
  <2>1. d \in sent \ expired /\ d # c /\ d \in Request
    BY <1>0, <1>1, <1>2, <1>8
  <2>2. op'[d] = op[d] /\ Mutation(d)
    BY <1>1, <2>1 DEF Mutation
  <2>3. op[d] \in DOMAIN entries /\ owner[op[d]] = d
    BY <2>1, <2>2 DEF SentIsRemembered
  <2>4. op[d] \in Retained
    BY <1>7, <2>3
  <2>5. op[d] \in OperationId /\ (fresh => op[d] # id)
    BY <1>0, <1>5, <2>3, <2>4
  <2> QED
    BY <1>1, <1>4, <2>2, <2>3, <2>4, <2>5
<1>14. SentIsPastWriting' /\ AppliedWasSent'
  BY <1>0, <1>1, <1>2 DEF SentIsPastWriting, AppliedWasSent, Mutation
<1>15. FramesAreHonest'
  <2>1. \A d \in sent : op'[d] = op[d]
    BY <1>0, <1>1, <1>2
  <2> QED
    BY <1>1, <2>1, RequestAssumption DEF FramesAreHonest, Mutation
<1>16. \A d \in applied : op'[d] = op[d] /\ fp'[d] = fp[d]
  BY <1>0, <1>1, <1>2
<1>17. RecordsAreHonest'
  <2>1. \A d \in Request : call'[d] = "answered" => result'[d] \in Answer
    BY <1>1 DEF RecordsAreHonest
  <2>2. ASSUME NEW o \in DOMAIN entries', entries'[o].status = "Completed"
        PROVE  /\ entries'[o].value \in Answer
               /\ entries'[o].value = "ok" =>
                    \E d \in applied' : op'[d] = o /\ fp'[d] = entries'[o].fingerprint
    <3>1. o \in Retained
      BY <1>5, <1>6, <2>2 DEF Admitted
    <3>2. /\ entries[o].value \in Answer
          /\ entries[o].value = "ok" =>
               \E d \in applied : op[d] = o /\ fp[d] = entries[o].fingerprint
      BY <1>4, <2>2, <3>1 DEF RecordsAreHonest
    <3> QED
      BY <1>1, <1>4, <1>16, <3>1, <3>2
  <2> QED
    BY <2>1, <2>2 DEF RecordsAreHonest
<1>18. /\ ~fresh => Refusal(verdict, id) # "internal"
       /\ (~fresh /\ Refusal(verdict, id) = "ok") =>
            \E d \in applied : op[d] = id /\ fp[d] = f
  <2>1. ~fresh => verdict \in {"InFlight", "Completed", "Unknown", "Conflict", "Capacity"}
    <3>1. \A i \in Retained : entries[i].status \in {"InFlight", "Completed", "Unknown"}
      BY <1>0 DEF Retained, LedgerTypeOK, Entry
    <3> QED
      BY <3>1 DEF Admission, MayStart, fresh, verdict
  <2>2. verdict = "Completed" =>
          /\ entries[id].value \in Answer
          /\ entries[id].value = "ok" => \E d \in applied : op[d] = id /\ fp[d] = f
    BY <1>4, <1>9 DEF RecordsAreHonest
  <2> QED
    BY <2>1, <2>2 DEF Refusal, Answer
<1>19. OkIsTruthful'
  <2> SUFFICES ASSUME NEW d \in Request, Mutation(d)', result'[d] = "ok"
               PROVE  \E e \in applied' : op'[e] = op'[d] /\ fp'[e] = fp'[d]
    BY DEF OkIsTruthful
  <2>1. CASE d = c
    BY <1>1, <1>2, <1>16, <1>18, <2>1
  <2>2. CASE d # c
    <3>1. \E e \in applied : op[e] = op[d] /\ fp[e] = fp[d]
      BY <1>1, <2>2 DEF OkIsTruthful, Mutation
    <3> QED
      BY <1>1, <1>16, <2>2, <3>1
  <2> QED
    BY <2>1, <2>2
<1>20. NoLostEntry'
  BY <1>1, <1>2, <1>18 DEF NoLostEntry
<1> QED
  BY <1>10, <1>11, <1>12, <1>13, <1>14, <1>15, <1>17, <1>19, <1>20 DEF OwnershipInv
\* Sending a request: its frame joins the pipe and its id the history.
LEMMA SendingKeepsInv ==
  ASSUME IInv, NEW c \in Request, WriteRequest(c)
  PROVE  OwnershipInv' /\ FramesAreHonest'
<1> USE DEF IInv, AdapterInv
<1>0. call \in [Request -> Stage] /\ sent \subseteq Request /\ PipeTypeOK
  BY DEF AdapterTypeOK, FuturesTypeOK, HistoryTypeOK
<1>1. /\ call[c] = "writing" /\ call'[c] = "reading"
      /\ \A d \in Request : d # c => call'[d] = call[d]
      /\ sent' = sent \cup {c}
      /\ UNCHANGED <<entries, op, fp, result, applied, owner, expired, toSidecar>>
  BY <1>0 DEF WriteRequest, Goto, ledgerVars
<1>2. IdleIsFresh' /\ EntryHasOwner'
  BY <1>1 DEF IdleIsFresh, EntryHasOwner
<1>3. Owned'
  BY <1>1 DEF Owned, Mutation, Removable
<1>4. SentIsRemembered'
  <2>1. Mutation(c) => op[c] \in DOMAIN entries /\ owner[op[c]] = c
    BY <1>1 DEF Owned, Removable
  <2> QED
    BY <1>1, <2>1 DEF SentIsRemembered, Mutation
<1>5. SentIsPastWriting'
  BY <1>0, <1>1 DEF SentIsPastWriting
<1>6. AppliedWasSent' /\ RecordsAreHonest'
  BY <1>1 DEF AppliedWasSent, Mutation, RecordsAreHonest
<1>7. FramesAreHonest'
  <2>1. /\ toPlugin' = Append(toPlugin, c)
        /\ Len(toPlugin') = Len(toPlugin) + 1
        /\ Len(toPlugin) \in Nat
        /\ \A k \in 1..Len(toPlugin) : toPlugin'[k] = toPlugin[k]
        /\ toPlugin'[Len(toPlugin) + 1] = c
    BY <1>0 DEF WriteRequest, PipeTypeOK
  <2>2. \A k \in 1..Len(toPlugin') : k \in 1..Len(toPlugin) \/ k = Len(toPlugin) + 1
    BY <2>1
  <2>3. \A k \in 1..Len(toPlugin') : toPlugin'[k] \in sent' \cup {NoRequest}
    BY <1>1, <2>1, <2>2 DEF FramesAreHonest
  <2> QED
    BY <1>1, <2>3 DEF FramesAreHonest, Mutation
<1> QED
  BY <1>2, <1>3, <1>4, <1>5, <1>6, <1>7 DEF OwnershipInv

\* Reading one's own answer: it is a success only if the mutation was performed.
LEMMA ReadingKeepsInv ==
  ASSUME IInv, NEW c \in Request, ReadOwn(c)
  PROVE  OwnershipInv' /\ FramesAreHonest' /\ OkIsTruthful' /\ NoLostEntry'
<1> USE DEF IInv, AdapterInv
<1>0. /\ call \in [Request -> Stage] /\ result \in [Request -> Result]
      /\ sent \subseteq Request /\ PipeTypeOK /\ toSidecar # <<>>
  BY DEF AdapterTypeOK, FuturesTypeOK, HistoryTypeOK, ReadOwn, Arrived
<1> DEFINE a == Head(toSidecar).answer
<1>1. /\ call[c] = "reading" /\ call'[c] = "answered" /\ result'[c] = a
      /\ \A d \in Request : d # c => call'[d] = call[d] /\ result'[d] = result[d]
      /\ UNCHANGED <<entries, op, fp, sent, applied, owner, expired, toPlugin>>
      /\ toSidecar' = Tail(toSidecar)
  BY <1>0 DEF ReadOwn, Arrived, Goto, Learn, ledgerVars, ghostVars
<1>2. /\ a \in Answer
      /\ (Mutation(c) /\ a = "ok") => c \in applied
  <2>1. Head(toSidecar) = toSidecar[1] /\ 1 \in 1..Len(toSidecar) /\ toSidecar[1] \in Frame
    BY <1>0 DEF PipeTypeOK
  <2>2. toSidecar[1].id = c
    BY <2>1 DEF ReadOwn, OwnFrame
  <2> QED
    BY <2>1, <2>2 DEF FramesAreHonest, Frame
<1>3. IdleIsFresh' /\ EntryHasOwner'
  BY <1>1 DEF IdleIsFresh, EntryHasOwner
<1>4. Owned'
  BY <1>1 DEF Owned, Mutation, Removable
<1>5. SentIsRemembered' /\ AppliedWasSent'
  BY <1>1 DEF SentIsRemembered, AppliedWasSent, Mutation
<1>6. SentIsPastWriting'
  BY <1>0, <1>1 DEF SentIsPastWriting
<1>7. RecordsAreHonest'
  BY <1>1, <1>2 DEF RecordsAreHonest
<1>8. FramesAreHonest'
  BY <1>0, <1>1, FramesTail
<1>9. OkIsTruthful'
  BY <1>1, <1>2 DEF OkIsTruthful, Mutation
<1>10. NoLostEntry'
  BY <1>1, <1>2 DEF NoLostEntry, Answer
<1> QED
  BY <1>3, <1>4, <1>5, <1>6, <1>7, <1>8, <1>9, <1>10 DEF OwnershipInv

\* The plugin performs a mutation: what was honest stays so.
LEMMA ApplyingKeepsInv ==
  ASSUME IInv, NEW c \in Request, PluginApplies(c)
  PROVE  OwnershipInv' /\ FramesAreHonest' /\ OkIsTruthful' /\ NoLostEntry'
<1> USE DEF IInv, AdapterInv
<1>1. /\ c \in sent /\ Mutation(c) /\ applied' = applied \cup {c}
      /\ UNCHANGED <<entries, call, op, fp, result, sent, owner, expired, toPlugin, toSidecar>>
  BY DEF PluginApplies, ledgerVars, futureVars, pipeVars
<1>2. IdleIsFresh' /\ EntryHasOwner' /\ SentIsPastWriting' /\ NoLostEntry'
  BY <1>1 DEF IdleIsFresh, EntryHasOwner, SentIsPastWriting, NoLostEntry
<1>3. Owned'
  BY <1>1 DEF Owned, Mutation, Removable
<1>4. SentIsRemembered' /\ AppliedWasSent'
  BY <1>1 DEF SentIsRemembered, AppliedWasSent, Mutation
<1>5. RecordsAreHonest'
  BY <1>1 DEF RecordsAreHonest
<1>6. FramesAreHonest'
  BY <1>1 DEF FramesAreHonest, Mutation
<1>7. OkIsTruthful'
  BY <1>1 DEF OkIsTruthful, Mutation
<1> QED
  BY <1>2, <1>3, <1>4, <1>5, <1>6, <1>7 DEF OwnershipInv

\* The plugin's answer joins the pipe: "ok" only for what was performed.
LEMMA AnswerKeepsFrames ==
  ASSUME IInv, NEW a \in Answer, PluginAnswers(a)
  PROVE  FramesAreHonest'
<1> USE DEF IInv, AdapterInv
<1> DEFINE r == Head(toPlugin)
           frame == [id |-> r, answer |-> a]
<1>1. /\ r = toPlugin[1] /\ 1 \in 1..Len(toPlugin) /\ r # NoRequest
      /\ Len(toPlugin) \in Nat /\ Len(toSidecar) \in Nat
  BY DEF PluginAnswers, AdapterTypeOK, PipeTypeOK
<1>2. r \in sent
  BY <1>1 DEF FramesAreHonest
<1>3. (a = "ok" /\ Mutation(r)) => r \in applied
  BY DEF PluginAnswers
<1>4. /\ Len(toPlugin') = Len(toPlugin) - 1
      /\ \A k \in 1..Len(toPlugin') : toPlugin'[k] = toPlugin[k + 1]
  BY <1>1 DEF PluginAnswers, AdapterTypeOK, PipeTypeOK
<1>5. \A k \in 1..Len(toPlugin') : k + 1 \in 1..Len(toPlugin)
  BY <1>1, <1>4
<1>6. /\ Len(toSidecar') = Len(toSidecar) + 1
      /\ \A k \in 1..Len(toSidecar) : toSidecar'[k] = toSidecar[k]
      /\ toSidecar'[Len(toSidecar) + 1] = frame
  BY <1>1 DEF PluginAnswers, AdapterTypeOK, PipeTypeOK
<1>7. \A k \in 1..Len(toSidecar') : k \in 1..Len(toSidecar) \/ k = Len(toSidecar) + 1
  BY <1>1, <1>6
<1>8. UNCHANGED <<sent, applied, op>>
  BY DEF PluginAnswers, ghostVars, futureVars
<1>9. frame.id = r /\ frame.answer = a
  OBVIOUS
<1> HIDE DEF r, frame
<1>10. \A k \in 1..Len(toPlugin') : toPlugin'[k] \in sent' \cup {NoRequest}
  BY <1>4, <1>5, <1>8 DEF FramesAreHonest
<1>11. ASSUME NEW k \in 1..Len(toSidecar')
       PROVE  /\ toSidecar'[k].id \in sent' \cup {NoRequest}
              /\ (/\ toSidecar'[k].id \in Request
                  /\ toSidecar'[k].answer = "ok"
                  /\ Mutation(toSidecar[k].id)') => toSidecar'[k].id \in applied'
  BY <1>2, <1>3, <1>6, <1>7, <1>8, <1>9 DEF FramesAreHonest, Mutation
<1> QED
  BY <1>10, <1>11 DEF FramesAreHonest

\* Every step keeps the inductive invariant.
LEMMA IInvStep ==
  ASSUME IInv, [AdapterNext]_adapterVars
  PROVE  IInv'
<1>0. /\ AdapterTypeOK /\ OwnershipInv /\ FramesAreHonest /\ OkIsTruthful /\ NoLostEntry
      /\ EntryHasOwner /\ RecordsAreHonest /\ IdleIsFresh /\ Owned
      /\ PipeTypeOK
  BY DEF IInv, AdapterInv, OwnershipInv, AdapterTypeOK
<1>t. AdapterTypeOK'
  BY <1>0, TypeStep
<1>q. OwnershipInv' /\ FramesAreHonest' /\ OkIsTruthful' /\ NoLostEntry' => IInv'
  BY <1>t DEF IInv, AdapterInv, OwnershipInv
<1>r. {"none", "timeout", "io", "mismatch", "cancelled", "unavailable"}
        \subseteq Result \ {"ok", "internal"}
  BY DEF Result
<1>w. {"admitted", "queued", "writing", "failing", "dropping", "returned"}
        \subseteq Stage \ {"idle"}
  BY DEF Stage
<1>1. ASSUME NEW c \in Request, CallRead(c) PROVE IInv'
  <2>1. OwnershipInv'
    BY <1>1, <1>0, <1>r, <1>w, MoveKeepsOwnership
       DEF CallRead, Active, Early, ledgerVars, ghostVars, IdleIsFresh, Mutation
  <2>2. FramesAreHonest'
    BY <1>1, <1>0, FramesUnchanged DEF CallRead, pipeVars, ghostVars
  <2>3. OkIsTruthful' /\ NoLostEntry'
    BY <1>1, <1>0, <1>r, ResultsKept DEF CallRead, ghostVars
  <2> QED
    BY <1>q, <2>1, <2>2, <2>3
<1>2. ASSUME NEW c \in Request, NEW id \in OperationId, NEW f \in Fingerprint,
             CallMutation(c, id, f) PROVE IInv'
  BY <1>2, <1>q, AdmissionKeepsInv
<1>3. ASSUME NEW c \in Request, PassReadyCheck(c) PROVE IInv'
  <2>1. OwnershipInv'
    BY <1>3, <1>0, <1>r, <1>w, MoveKeepsOwnership
       DEF PassReadyCheck, Active, Early, ledgerVars, ghostVars
  <2>2. FramesAreHonest'
    BY <1>3, <1>0, FramesUnchanged DEF PassReadyCheck, pipeVars, ghostVars
  <2>3. OkIsTruthful' /\ NoLostEntry'
    BY <1>3, <1>0, <1>r, ResultsKept DEF PassReadyCheck, ghostVars
  <2> QED
    BY <1>q, <2>1, <2>2, <2>3
<1>4. ASSUME NEW c \in Request, FailReadyCheck(c) PROVE IInv'
  <2>1. Mutation(c) => Removable(op[c], fp[c])
    BY <1>4, <1>0 DEF FailReadyCheck, Owned
  <2>2. Learn(c, "unavailable")
    BY <1>4, <2>1 DEF FailReadyCheck
  <2>3. OwnershipInv'
    <3>1. CASE Mutation(c) /\ AbandonUnstarted(op[c], fp[c])
      BY <1>4, <1>0, <2>2, <3>1, WithdrawalKeepsOwnership DEF FailReadyCheck, ghostVars
    <3>2. CASE ~Mutation(c) /\ UNCHANGED ledgerVars
      BY <1>4, <1>0, <1>r, <1>w, <2>2, <3>2, MoveKeepsOwnership
         DEF FailReadyCheck, Active, Early, ledgerVars, ghostVars
    <3> QED
      BY <1>4, <2>1, <3>1, <3>2 DEF FailReadyCheck
  <2>4. FramesAreHonest'
    BY <1>4, <1>0, FramesUnchanged DEF FailReadyCheck, pipeVars, ghostVars
  <2>5. OkIsTruthful' /\ NoLostEntry'
    BY <1>4, <1>0, <1>r, <2>2, ResultsKept DEF FailReadyCheck, ghostVars
  <2> QED
    BY <1>q, <2>3, <2>4, <2>5
<1>5. ASSUME NEW c \in Request, AcquireStream(c) PROVE IInv'
  <2>1. OwnershipInv'
    BY <1>5, <1>0, <1>r, <1>w, MoveKeepsOwnership
       DEF AcquireStream, Active, Early, ledgerVars, ghostVars
  <2>2. FramesAreHonest'
    BY <1>5, <1>0, FramesUnchanged DEF AcquireStream, pipeVars, ghostVars
  <2>3. OkIsTruthful' /\ NoLostEntry'
    BY <1>5, <1>0, <1>r, ResultsKept DEF AcquireStream, ghostVars
  <2> QED
    BY <1>q, <2>1, <2>2, <2>3
<1>6. ASSUME NEW c \in Request, WriteRequest(c) PROVE IInv'
  <2>1. OkIsTruthful' /\ NoLostEntry'
    BY <1>6, <1>0, ResultsKept DEF WriteRequest
  <2> QED
    BY <1>6, <1>q, <2>1, SendingKeepsInv
<1>7. ASSUME NEW c \in Request, ReadOwn(c) PROVE IInv'
  BY <1>7, <1>q, ReadingKeepsInv
<1>8. ASSUME NEW c \in Request, DrainStale(c) PROVE IInv'
  <2>1. OwnershipInv'
    BY <1>8, <1>0, OwnershipUnchanged DEF DrainStale, ledgerVars
  <2>2. FramesAreHonest'
    BY <1>8, <1>0, FramesTail DEF DrainStale, Arrived, futureVars, ghostVars
  <2>3. OkIsTruthful' /\ NoLostEntry'
    BY <1>8, <1>0 DEF DrainStale, futureVars, ghostVars, OkIsTruthful, NoLostEntry, Mutation
  <2> QED
    BY <1>q, <2>1, <2>2, <2>3
<1>9. ASSUME NEW c \in Request, ReadForeign(c) PROVE IInv'
  <2>1. OwnershipInv'
    BY <1>9, <1>0, <1>r, <1>w, MoveKeepsOwnership
       DEF ReadForeign, Active, Early, ledgerVars, ghostVars, Arrived
  <2>2. FramesAreHonest'
    BY <1>9, <1>0, FramesTail DEF ReadForeign, Arrived, ghostVars
  <2>3. OkIsTruthful' /\ NoLostEntry'
    BY <1>9, <1>0, <1>r, ResultsKept DEF ReadForeign, ghostVars
  <2> QED
    BY <1>q, <2>1, <2>2, <2>3
<1>10. ASSUME NEW c \in Request, ExchangeError(c) PROVE IInv'
  <2>1. OwnershipInv'
    BY <1>10, <1>0, <1>r, <1>w, MoveKeepsOwnership
       DEF ExchangeError, Active, Early, ledgerVars, ghostVars, Arrived
  <2>2. FramesAreHonest'
    BY <1>10, <1>0, FramesUnchanged DEF ExchangeError, pipeVars, ghostVars
  <2>3. OkIsTruthful' /\ NoLostEntry'
    BY <1>10, <1>0, <1>r, ResultsKept DEF ExchangeError, ghostVars
  <2> QED
    BY <1>q, <2>1, <2>2, <2>3
<1>11. ASSUME NEW c \in Request, Timeout(c) PROVE IInv'
  <2>1. OwnershipInv'
    BY <1>11, <1>0, <1>r, <1>w, MoveKeepsOwnership
       DEF Timeout, Active, Early, ledgerVars, ghostVars, Suspended
  <2>2. FramesAreHonest'
    BY <1>11, <1>0, FramesTorn DEF Timeout, ghostVars
  <2>3. OkIsTruthful' /\ NoLostEntry'
    BY <1>11, <1>0, <1>r, ResultsKept DEF Timeout, ghostVars
  <2> QED
    BY <1>q, <2>1, <2>2, <2>3
<1>12. ASSUME NEW c \in Request, Cancel(c) PROVE IInv'
  <2>1. OwnershipInv'
    BY <1>12, <1>0, <1>r, <1>w, MoveKeepsOwnership
       DEF Cancel, Active, Early, ledgerVars, ghostVars, Suspended
  <2>2. FramesAreHonest'
    BY <1>12, <1>0, FramesTorn DEF Cancel, ghostVars
  <2>3. OkIsTruthful' /\ NoLostEntry'
    BY <1>12, <1>0, <1>r, ResultsKept DEF Cancel, ghostVars
  <2> QED
    BY <1>q, <2>1, <2>2, <2>3
<1>13. ASSUME NEW c \in Request, Settle(c) PROVE IInv'
  <2>1. Mutation(c) => op[c] \in DOMAIN entries
    BY <1>13, <1>0 DEF Settle, Owned, Removable
  <2>2. UNCHANGED result
    BY <1>13, <2>1 DEF Settle
  <2>3. OwnershipInv'
    <3>1. CASE Mutation(c)
      BY <1>13, <1>0, <2>1, <2>2, <3>1, SettlingKeepsOwnership DEF Settle, Complete, ghostVars
    <3>2. CASE ~Mutation(c)
      BY <1>13, <1>0, <1>w, <2>2, <3>2, MoveKeepsOwnership
         DEF Settle, Active, Early, ledgerVars, ghostVars
    <3> QED
      BY <3>1, <3>2
  <2>4. FramesAreHonest'
    BY <1>13, <1>0, FramesUnchanged DEF Settle, pipeVars, ghostVars
  <2>5. OkIsTruthful' /\ NoLostEntry'
    BY <1>13, <1>0, <2>2, ResultsKept DEF Settle, ghostVars
  <2> QED
    BY <1>q, <2>3, <2>4, <2>5
<1>14. ASSUME NEW c \in Request, Fail(c) PROVE IInv'
  <2>1. OwnershipInv'
    <3>1. CASE Mutation(c)
      <4>1. op[c] \in DOMAIN entries
        BY <1>14, <1>0, <3>1 DEF Fail, Owned, Removable
      <4> QED
        BY <1>14, <1>0, <3>1, <4>1, SettlingKeepsOwnership DEF Fail, MarkUnknown, ghostVars
    <3>2. CASE ~Mutation(c)
      BY <1>14, <1>0, <1>w, <3>2, MoveKeepsOwnership
         DEF Fail, Active, Early, ledgerVars, ghostVars
    <3> QED
      BY <3>1, <3>2
  <2>2. FramesAreHonest'
    BY <1>14, <1>0, FramesUnchanged DEF Fail, pipeVars, ghostVars
  <2>3. OkIsTruthful' /\ NoLostEntry'
    BY <1>14, <1>0, ResultsKept DEF Fail, ghostVars
  <2> QED
    BY <1>q, <2>1, <2>2, <2>3
<1>15. ASSUME NEW c \in Request, Remember(c) PROVE IInv'
  <2>1. OwnershipInv'
    BY <1>15, <1>0, <1>r, <1>w, MoveKeepsOwnership
       DEF Remember, Active, Early, ledgerVars, ghostVars
  <2>2. FramesAreHonest'
    BY <1>15, <1>0, FramesUnchanged DEF Remember, pipeVars, ghostVars
  <2>3. OkIsTruthful' /\ NoLostEntry'
    BY <1>15, <1>0, <1>r, ResultsKept DEF Remember, ghostVars
  <2> QED
    BY <1>q, <2>1, <2>2, <2>3
<1>16. ASSUME LedgerTick PROVE IInv'
  <2>1. OwnershipInv'
    BY <1>16, <1>0, OwnershipUnchanged DEF LedgerTick, Tick
  <2>2. FramesAreHonest'
    BY <1>16, <1>0, FramesUnchanged DEF LedgerTick, futureVars, pipeVars, ghostVars
  <2>3. OkIsTruthful' /\ NoLostEntry'
    BY <1>16, <1>0 DEF LedgerTick, futureVars, ghostVars, OkIsTruthful, NoLostEntry, Mutation
  <2> QED
    BY <1>q, <2>1, <2>2, <2>3
<1>17. ASSUME NEW c \in Request, PluginApplies(c) PROVE IInv'
  BY <1>17, <1>q, ApplyingKeepsInv
<1>18. ASSUME NEW a \in Answer, PluginAnswers(a) PROVE IInv'
  <2>1. OwnershipInv'
    BY <1>18, <1>0, OwnershipUnchanged DEF PluginAnswers, ledgerVars
  <2>2. FramesAreHonest'
    BY <1>18, AnswerKeepsFrames
  <2>3. OkIsTruthful' /\ NoLostEntry'
    BY <1>18, <1>0 DEF PluginAnswers, futureVars, ghostVars, OkIsTruthful, NoLostEntry, Mutation
  <2> QED
    BY <1>q, <2>1, <2>2, <2>3
<1>19. ASSUME PluginCloses PROVE IInv'
  <2>1. OwnershipInv'
    BY <1>19, <1>0, OwnershipUnchanged DEF PluginCloses, ledgerVars
  <2>2. FramesAreHonest'
    BY <1>19 DEF PluginCloses, FramesAreHonest
  <2>3. OkIsTruthful' /\ NoLostEntry'
    BY <1>19, <1>0 DEF PluginCloses, futureVars, ghostVars, OkIsTruthful, NoLostEntry, Mutation
  <2> QED
    BY <1>q, <2>1, <2>2, <2>3
<1>20. ASSUME UNCHANGED adapterVars PROVE IInv'
  <2>1. OwnershipInv'
    BY <1>20, <1>0, OwnershipUnchanged DEF adapterVars, ledgerVars
  <2>2. FramesAreHonest'
    BY <1>20, <1>0, FramesUnchanged DEF adapterVars, futureVars, pipeVars, ghostVars
  <2>3. OkIsTruthful' /\ NoLostEntry'
    BY <1>20, <1>0 DEF adapterVars, futureVars, ghostVars, OkIsTruthful, NoLostEntry, Mutation
  <2> QED
    BY <1>q, <2>1, <2>2, <2>3
<1> QED
  BY <1>1, <1>2, <1>3, <1>4, <1>5, <1>6, <1>7, <1>8, <1>9, <1>10,
     <1>11, <1>12, <1>13, <1>14, <1>15, <1>16, <1>17, <1>18, <1>19, <1>20
     DEF AdapterNext, Sidecar, Client, Progress, Plugin

\* A fresh adapter satisfies the inductive invariant.
LEMMA IInvInit == AdapterInit => IInv
<1> SUFFICES ASSUME AdapterInit PROVE IInv
  OBVIOUS
<1>1. AdapterTypeOK
  BY TypeInit
<1>2. DOMAIN entries = {} /\ sent = {} /\ applied = {} /\ toPlugin = <<>> /\ toSidecar = <<>>
  BY DEF AdapterInit, LedgerInit
<1>3. \A c \in Request : call[c] = "idle" /\ op[c] = NoOperation /\ result[c] = "none"
  BY DEF AdapterInit
<1>4. IdleIsFresh /\ Owned /\ EntryHasOwner
  BY <1>2, <1>3 DEF IdleIsFresh, Owned, EntryHasOwner
<1>5. SentIsRemembered /\ SentIsPastWriting /\ AppliedWasSent
  BY <1>2 DEF SentIsRemembered, SentIsPastWriting, AppliedWasSent
<1>6. FramesAreHonest
  BY <1>2 DEF FramesAreHonest
<1>7. RecordsAreHonest
  BY <1>2, <1>3 DEF RecordsAreHonest
<1>8. OkIsTruthful /\ NoLostEntry
  BY <1>3 DEF OkIsTruthful, NoLostEntry
<1> QED
  BY <1>1, <1>4, <1>5, <1>6, <1>7, <1>8 DEF IInv, AdapterInv

\* The inductive invariant holds throughout.
LEMMA IInvAlways == AdapterSafety => []IInv
<1>1. IInv /\ [AdapterNext]_adapterVars => IInv'
  BY IInvStep
<1> QED
  BY <1>1, IInvInit, PTL DEF AdapterSafety

-----------------------------------------------------------------------------
(* The properties.                                                         *)

\* Every variable of the adapter keeps its type, the list of abandoned requests
\* its bound.
THEOREM AdapterTypeCorrect == AdapterSafety => []AdapterTypeOK
<1>1. IInv => AdapterTypeOK
  BY DEF IInv
<1> QED
  BY <1>1, IInvAlways, PTL

\* The ownership facts that the other theorems rest on hold throughout.
THEOREM OwnershipHolds == AdapterSafety => []AdapterInv
<1>1. IInv => AdapterInv
  BY DEF IInv
<1> QED
  BY <1>1, IInvAlways, PTL

\* Two performed calls with one operation_id would both own its entry.
LEMMA InvImpliesAtMostOnce ==
  ASSUME IInv
  PROVE  AtMostOnce
<1> SUFFICES ASSUME NEW c \in applied, NEW d \in applied, c # d, op[c] = op[d],
                    c \notin expired, d \notin expired
             PROVE  FALSE
  BY DEF AtMostOnce
<1>1. owner[op[c]] = c /\ owner[op[d]] = d
  BY DEF IInv, AdapterInv, AppliedWasSent, SentIsRemembered
<1> QED
  BY <1>1

\* A mutation is performed at most once per operation_id while the ledger
\* remembers it, whatever calls, retries, cancellations, timeouts and torn
\* frames there are.
THEOREM MutationsAtMostOnce == AdapterSafety => []AtMostOnce
<1>1. IInv => AtMostOnce
  BY InvImpliesAtMostOnce
<1> QED
  BY <1>1, IInvAlways, PTL

\* "ok", first hand or replayed, is said only of a mutation that was performed
\* with the arguments of the call.
THEOREM SuccessIsTruthful == AdapterSafety => []OkIsTruthful
<1>1. IInv => OkIsTruthful
  BY DEF IInv
<1> QED
  BY <1>1, IInvAlways, PTL

\* No call finds its ledger entry gone: the two ledger_internal_error paths of
\* IpcAdapter::call are dead code.
THEOREM LedgerNeverLosesEntry == AdapterSafety => []NoLostEntry
<1>1. IInv => NoLostEntry
  BY DEF IInv
<1> QED
  BY <1>1, IInvAlways, PTL

\* The verdict on entry i, recorded before this step, stays what it was.
VerdictKept(i) ==
  (entries[i].status # "InFlight" /\ owner'[i] = owner[i]) =>
    /\ entries'[i].status = entries[i].status
    /\ entries'[i].value = entries[i].value

\* The call that settles an entry owns it and finds it in flight; begin() gives
\* a recorded id to a new owner or leaves its verdict alone.
LEMMA VerdictKeptByStep ==
  ASSUME IInv, AdapterNext, NEW i \in DOMAIN entries \cap DOMAIN entries'
  PROVE  VerdictKept(i)
<1> SUFFICES ASSUME entries[i].status # "InFlight", owner'[i] = owner[i]
             PROVE  /\ entries'[i].status = entries[i].status
                    /\ entries'[i].value = entries[i].value
  BY DEF VerdictKept
<1>1. ASSUME NEW c \in Request, NEW id \in OperationId, NEW f \in Fingerprint,
             CallMutation(c, id, f)
      PROVE  /\ entries'[i].status = entries[i].status
             /\ entries'[i].value = entries[i].value
  <2>1. CASE i \in Retained
    BY <1>1, <2>1, BeginKeeps DEF CallMutation, IInv, AdapterTypeOK
  <2>2. CASE i \notin Retained
    <3>1. i = id /\ MayStart(Admission(id, f))
      BY <1>1, <2>2 DEF CallMutation, Begin, MayStart
    <3>2. owner'[i] = c
      BY <1>1, <3>1 DEF CallMutation, IInv, AdapterTypeOK, HistoryTypeOK
    <3>3. op[c] = i /\ op[c] = NoOperation
      BY <1>1, <3>2 DEF CallMutation, IInv, AdapterInv, EntryHasOwner, IdleIsFresh
    <3> QED
      BY <3>1, <3>3, AdapterAssumption
  <2> QED
    BY <2>1, <2>2
<1>2. ASSUME NEW c \in Request, Mutation(c), call[c] \in {"answered", "failing"}
      PROVE  op[c] # i
  BY <1>2 DEF IInv, AdapterInv, Owned, Removable
<1>3. ASSUME NEW c \in Request, Settle(c) \/ Fail(c)
      PROVE  entries'[i] = entries[i]
  BY <1>2, <1>3 DEF Settle, Fail, Complete, MarkUnknown, SetStatus, ledgerVars
<1>4. ASSUME NEW c \in Request, FailReadyCheck(c)
      PROVE  entries'[i] = entries[i]
  BY <1>4 DEF FailReadyCheck, AbandonUnstarted, ledgerVars
<1>5. CASE UNCHANGED entries
  BY <1>5
<1>6. ASSUME NEW c \in Request,
             \/ CallRead(c) \/ Cancel(c) \/ PassReadyCheck(c) \/ AcquireStream(c)
             \/ WriteRequest(c) \/ ReadOwn(c) \/ DrainStale(c) \/ ReadForeign(c)
             \/ ExchangeError(c) \/ Timeout(c) \/ Remember(c) \/ PluginApplies(c)
      PROVE  UNCHANGED entries
  BY <1>6 DEF CallRead, Cancel, PassReadyCheck, AcquireStream, WriteRequest, ReadOwn,
              DrainStale, ReadForeign, ExchangeError, Timeout, Remember, PluginApplies,
              ledgerVars
<1>7. ASSUME LedgerTick \/ PluginCloses \/ \E a \in Answer : PluginAnswers(a)
      PROVE  UNCHANGED entries
  BY <1>7 DEF LedgerTick, Tick, PluginCloses, PluginAnswers, ledgerVars
<1> QED
  BY <1>1, <1>3, <1>4, <1>5, <1>6, <1>7
     DEF AdapterNext, Sidecar, Client, Progress, Plugin

\* A recorded outcome is never overwritten while its entry lives.
THEOREM VerdictsAreFinal == AdapterSafety => VerdictFinal
<1> DEFINE Final == \A i \in DOMAIN entries \cap DOMAIN entries' : VerdictKept(i)
<1>1. IInv /\ [AdapterNext]_adapterVars => [Final]_adapterVars
  BY VerdictKeptByStep
<1> QED
  BY <1>1, IInvAlways, PTL DEF AdapterSafety, VerdictFinal, VerdictKept

-----------------------------------------------------------------------------
(* The executor.                                                           *)

\* a was admitted before b.
Before(s, a, b) == \E k, l \in 1..Len(s) : k < l /\ s[k] = a /\ s[l] = b

In(s, a) == \E k \in 1..Len(s) : s[k] = a

\* The worker has an item that it has not run yet.
Holding == worker \in {"popped", "checked", "started"}

\* No request is admitted twice, and none that was refused or has not called.
AdmittedOnce ==
  /\ \A k, l \in 1..Len(admitted) : k # l => admitted[k] # admitted[l]
  /\ \A k \in 1..Len(admitted) : /\ execute[admitted[k]] # "idle"
                                 /\ status[admitted[k]] \notin {"busy", "stopped"}
  /\ \A r \in Request : execute[r] = "idle" => status[r] = "none"

\* What is run, held or queued was admitted; the worker holds an item exactly
\* between a pop and the completion.
LineIsAdmitted ==
  /\ \A i \in 1..Len(ran) : In(admitted, ran[i])
  /\ \A j \in 1..Len(queue) : In(admitted, queue[j])
  /\ (worker \in {"popped", "checked", "started", "ran"}) <=> (work # NoRequest)
  /\ work # NoRequest => In(admitted, work)

\* The line is in the order of admission.
LineInOrder ==
  /\ \A i, j \in 1..Len(ran) : i < j => Before(admitted, ran[i], ran[j])
  /\ \A i \in 1..Len(ran), j \in 1..Len(queue) : Before(admitted, ran[i], queue[j])
  /\ \A i, j \in 1..Len(queue) : i < j => Before(admitted, queue[i], queue[j])
  /\ Holding => \A i \in 1..Len(ran) : Before(admitted, ran[i], work)
  /\ work # NoRequest => \A j \in 1..Len(queue) : Before(admitted, work, queue[j])

\* `started' is stored just before the operation runs, and the ambiguous verdict
\* is given to items with that mark only.
StartedIsHonest ==
  /\ \A r \in Request : started[r] => HasRun(r) \/ (work = r /\ worker = "started")
  /\ \A r \in Request : status[r] = "timedOutStarted" => started[r]

\* While Stop is under way nothing new is admitted and all that is queued is
\* cancelled.
StopCancelsQueue ==
  stopping => ~accepting /\ \A j \in 1..Len(queue) : cancelled[queue[j]]

ExecutorInv ==
  /\ AdmittedOnce
  /\ LineIsAdmitted
  /\ LineInOrder
  /\ StartedIsHonest
  /\ StopCancelsQueue

-----------------------------------------------------------------------------
(* The order of admission.                                                 *)

\* Admitting one more item keeps the order and puts it behind all others.
LEMMA AppendKeepsOrder ==
  ASSUME NEW S, NEW s \in Seq(S), NEW r \in S
  PROVE  /\ \A a, b : Before(s, a, b) => Before(Append(s, r), a, b)
         /\ \A a : In(s, a) => In(Append(s, r), a)
         /\ \A a : In(s, a) => Before(Append(s, r), a, r)
         /\ In(Append(s, r), r)
<1>1. /\ Len(Append(s, r)) = Len(s) + 1
      /\ \A k \in 1..Len(s) : Append(s, r)[k] = s[k]
      /\ Append(s, r)[Len(s) + 1] = r
  OBVIOUS
<1> DEFINE t == Append(s, r)
<1>2. 1..Len(s) \subseteq 1..Len(t) /\ Len(s) + 1 \in 1..Len(t)
  BY <1>1
<1>3. /\ \A k \in 1..Len(s) : t[k] = s[k] /\ k < Len(s) + 1
      /\ t[Len(s) + 1] = r
  BY <1>1
<1> HIDE DEF t
<1>4. \A a, b : Before(s, a, b) => Before(t, a, b)
  BY <1>2, <1>3 DEF Before
<1>5. \A a : In(s, a) => In(t, a)
  BY <1>2, <1>3 DEF In
<1>6. \A a : In(s, a) => Before(t, a, r)
  BY <1>2, <1>3 DEF Before, In
<1>7. In(t, r)
  BY <1>2, <1>3 DEF In
<1> QED
  BY <1>4, <1>5, <1>6, <1>7 DEF t

\* The elements of a sequence with one more are the old ones and the new one.
LEMMA AppendElements ==
  ASSUME NEW S, NEW s \in Seq(S), NEW r \in S, NEW t, t = Append(s, r)
  PROVE  /\ Len(t) = Len(s) + 1
         /\ \A i \in 1..Len(t) : \/ i \in 1..Len(s) /\ t[i] = s[i]
                                 \/ i = Len(s) + 1 /\ t[i] = r
<1>1. /\ Len(t) = Len(s) + 1
      /\ \A k \in 1..Len(s) : t[k] = s[k]
      /\ t[Len(s) + 1] = r
  OBVIOUS
<1>2. \A i \in 1..Len(t) : i \in 1..Len(s) \/ i = Len(s) + 1
  BY <1>1
<1> QED
  BY <1>1, <1>2

\* The head and the tail of the queue are parts of it.
LEMMA HeadAndTail ==
  ASSUME NEW S, NEW s \in Seq(S), s # <<>>
  PROVE  /\ Head(s) = s[1] /\ Head(s) \in S /\ 1 \in 1..Len(s)
         /\ Tail(s) \in Seq(S) /\ Len(Tail(s)) = Len(s) - 1
         /\ \A i \in 1..Len(Tail(s)) : i + 1 \in 1..Len(s) /\ Tail(s)[i] = s[i + 1]
OBVIOUS

-----------------------------------------------------------------------------
(* Type correctness.                                                       *)

\* Nothing has been admitted before Start.
LEMMA ExecutorInitInv == ExecutorInit => ExecutorTypeOK /\ ExecutorInv
<1> SUFFICES ASSUME ExecutorInit PROVE ExecutorTypeOK /\ ExecutorInv
  OBVIOUS
<1>1. ExecutorTypeOK
  <2>1. <<>> \in Seq(Request) /\ Len(<<>>) <= Capacity
    BY ExecutorAssumption
  <2> QED
    BY <2>1 DEF ExecutorInit, ExecutorTypeOK
<1>2. ExecutorInv
  BY DEF ExecutorInit, ExecutorInv, AdmittedOnce, LineIsAdmitted, LineInOrder,
         StartedIsHonest, StopCancelsQueue, Holding
<1> QED
  BY <1>1, <1>2

\* Every step keeps the types, and the queue within its capacity.
LEMMA ExecutorTypeStep ==
  ASSUME ExecutorTypeOK, LineIsAdmitted, [ExecutorNext]_executorVars
  PROVE  ExecutorTypeOK'
<1> USE DEF gateVars, workVars, callVars, threadVars, historyVars
<1>1. CASE Start
  BY <1>1 DEF Start, ExecutorTypeOK
<1>2. CASE Drain
  <2>1. cancelled' \in [Request -> BOOLEAN]
    BY <1>2 DEF Drain, ExecutorTypeOK
  <2> QED
    BY <1>2, <2>1 DEF Drain, ExecutorTypeOK
<1>3. CASE Join
  <2>1. <<>> \in Seq(Request) /\ Len(<<>>) <= Capacity
    BY ExecutorAssumption
  <2> QED
    BY <1>3, <2>1 DEF Join, ExecutorTypeOK
<1>4. ASSUME NEW r \in Request, ExecuteStopped(r) \/ ExecuteBusy(r)
      PROVE  ExecutorTypeOK'
  BY <1>4 DEF ExecuteStopped, ExecuteBusy, Return, ExecutorTypeOK, ExecutionStatus
<1>5. ASSUME NEW r \in Request, ExecuteQueued(r)
      PROVE  ExecutorTypeOK'
  <2>1. /\ Append(queue, r) \in Seq(Request) /\ Len(Append(queue, r)) = Len(queue) + 1
        /\ Append(admitted, r) \in Seq(Request)
    BY DEF ExecutorTypeOK
  <2> QED
    BY <1>5, <2>1, ExecutorAssumption DEF ExecuteQueued, Enqueue, ExecutorTypeOK
<1>6. ASSUME NEW r \in Request, WaitStep(r)
      PROVE  ExecutorTypeOK'
  BY <1>6 DEF WaitStep, WaitReady, WaitExpires, ClassifyExpiry, Return, ExecutorTypeOK,
              ExecutionStatus
<1>7. CASE Pop
  BY <1>7, HeadAndTail, ExecutorAssumption DEF Pop, ExecutorTypeOK
<1>8. CASE Exit
  BY <1>8 DEF Exit, ExecutorTypeOK
<1>9. CASE CheckCancelled
  BY <1>9 DEF CheckCancelled, Skip, Proceed, ExecutorTypeOK
<1>10. CASE MarkStarted
  BY <1>10 DEF MarkStarted, ExecutorTypeOK
<1>11. CASE RunOperation
  <2>1. work \in Request
    BY <1>11 DEF RunOperation, LineIsAdmitted, ExecutorTypeOK
  <2>2. Append(ran, work) \in Seq(Request)
    BY <2>1 DEF ExecutorTypeOK
  <2> QED
    BY <1>11, <2>2 DEF RunOperation, ExecutorTypeOK
<1>12. ASSUME NEW outcome \in Response \cup {"empty"}, Publish(outcome)
       PROVE  ExecutorTypeOK'
  BY <1>12 DEF Publish, ExecutorTypeOK
<1>13. CASE UNCHANGED executorVars
  BY <1>13 DEF executorVars, ExecutorTypeOK
<1> QED
  BY <1>1, <1>2, <1>3, <1>4, <1>5, <1>6, <1>7, <1>8, <1>9, <1>10, <1>11, <1>12, <1>13
     DEF ExecutorNext, WorkerStep, OperationStep

-----------------------------------------------------------------------------
(* The invariant, one conjunct at a time.                                  *)

\* Only a call that has not begun is admitted or refused, and only once.
LEMMA AdmittedOnceStep ==
  ASSUME ExecutorTypeOK, AdmittedOnce, [ExecutorNext]_executorVars
  PROVE  AdmittedOnce'
<1> USE DEF gateVars, workVars, callVars, threadVars, historyVars
<1>1. \A k \in 1..Len(admitted) : admitted[k] \in Request
  BY DEF ExecutorTypeOK
<1>2. CASE UNCHANGED <<admitted, execute, status>>
  BY <1>2 DEF AdmittedOnce
<1>3. ASSUME NEW r \in Request, ExecuteStopped(r) \/ ExecuteBusy(r)
      PROVE  AdmittedOnce'
  <2>1. \A k \in 1..Len(admitted) : admitted[k] # r
    BY <1>3 DEF ExecuteStopped, ExecuteBusy, AdmittedOnce
  <2> QED
    BY <1>1, <1>3, <2>1 DEF ExecuteStopped, ExecuteBusy, Return, AdmittedOnce, ExecutorTypeOK
<1>4. ASSUME NEW r \in Request, ExecuteQueued(r)
      PROVE  AdmittedOnce'
  <2>1. \A k \in 1..Len(admitted) : admitted[k] # r
    BY <1>4 DEF ExecuteQueued, AdmittedOnce
  <2>2. status[r] \notin {"busy", "stopped"}
    BY <1>4 DEF ExecuteQueued, AdmittedOnce
  <2>4. \A k \in 1..Len(admitted') : \/ k \in 1..Len(admitted) /\ admitted'[k] = admitted[k]
                                     \/ k = Len(admitted) + 1 /\ admitted'[k] = r
    BY <1>4, AppendElements DEF ExecuteQueued, Enqueue, ExecutorTypeOK
  <2>5. \A k, l \in 1..Len(admitted') : k # l => admitted'[k] # admitted'[l]
    BY <2>1, <2>4 DEF AdmittedOnce
  <2>6. \A q \in Request : execute'[q] = (IF q = r THEN "waiting" ELSE execute[q])
    BY <1>4 DEF ExecuteQueued, Enqueue, ExecutorTypeOK
  <2> QED
    BY <1>1, <1>4, <2>2, <2>4, <2>5, <2>6 DEF ExecuteQueued, Enqueue, AdmittedOnce
<1>5. ASSUME NEW r \in Request, WaitStep(r)
      PROVE  AdmittedOnce'
  BY <1>1, <1>5 DEF WaitStep, WaitReady, WaitExpires, ClassifyExpiry, Return, AdmittedOnce,
                    ExecutorTypeOK
<1> QED
  BY <1>2, <1>3, <1>4, <1>5
     DEF ExecutorNext, WorkerStep, OperationStep, executorVars, Start, Drain, Join, Pop, Exit,
         CheckCancelled, Skip, Proceed, MarkStarted, RunOperation, Publish

\* A request enters the line when it is admitted, and moves through it.
LEMMA LineIsAdmittedStep ==
  ASSUME ExecutorTypeOK, LineIsAdmitted, [ExecutorNext]_executorVars
  PROVE  LineIsAdmitted'
<1> USE DEF gateVars, workVars, callVars, threadVars, historyVars
<1>1. CASE UNCHANGED <<admitted, queue, ran, worker, work>>
  BY <1>1 DEF LineIsAdmitted
<1>2. CASE Start \/ Exit
  BY <1>2 DEF Start, Exit, LineIsAdmitted
<1>3. CASE Join
  BY <1>3 DEF Join, LineIsAdmitted
<1>4. ASSUME NEW r \in Request, ExecuteQueued(r)
      PROVE  LineIsAdmitted'
  <2>1. /\ \A a : In(admitted, a) => In(admitted', a)
        /\ In(admitted', r)
    BY <1>4, AppendKeepsOrder DEF ExecuteQueued, Enqueue, ExecutorTypeOK
  <2>2. \A j \in 1..Len(queue') : (j \in 1..Len(queue) /\ queue'[j] = queue[j]) \/ queue'[j] = r
    BY <1>4 DEF ExecuteQueued, Enqueue, ExecutorTypeOK
  <2> QED
    BY <1>4, <2>1, <2>2 DEF ExecuteQueued, Enqueue, LineIsAdmitted
<1>5. CASE Pop
  <2>1. /\ queue' = Tail(queue) /\ work' = queue[1] /\ work' \in Request /\ 1 \in 1..Len(queue)
        /\ \A j \in 1..Len(queue') : j + 1 \in 1..Len(queue) /\ queue'[j] = queue[j + 1]
    BY <1>5, HeadAndTail DEF Pop, ExecutorTypeOK
  <2> QED
    BY <1>5, <2>1, RequestAssumption DEF Pop, LineIsAdmitted
<1>6. CASE CheckCancelled \/ MarkStarted
  BY <1>6 DEF CheckCancelled, Skip, Proceed, MarkStarted, LineIsAdmitted
<1>7. CASE RunOperation
  <2>1. \A i \in 1..Len(ran') : (i \in 1..Len(ran) /\ ran'[i] = ran[i]) \/ ran'[i] = work
    BY <1>7 DEF RunOperation, ExecutorTypeOK
  <2> QED
    BY <1>7, <2>1 DEF RunOperation, LineIsAdmitted
<1>8. ASSUME NEW outcome, Publish(outcome)
      PROVE  LineIsAdmitted'
  BY <1>8 DEF Publish, LineIsAdmitted
<1> QED
  BY <1>1, <1>2, <1>3, <1>4, <1>5, <1>6, <1>7, <1>8
     DEF ExecutorNext, WorkerStep, OperationStep, WaitStep, executorVars, Drain,
         ExecuteStopped, ExecuteBusy, WaitReady, WaitExpires, ClassifyExpiry, Return

\* The line stays in the order of admission: a new item goes behind it, the
\* worker takes the front of the queue, and what it runs follows what has run.
LEMMA LineInOrderStep ==
  ASSUME ExecutorTypeOK, LineIsAdmitted, LineInOrder, [ExecutorNext]_executorVars
  PROVE  LineInOrder'
<1> USE DEF gateVars, workVars, callVars, threadVars, historyVars
<1>1. CASE UNCHANGED <<admitted, queue, ran, worker, work>>
  BY <1>1 DEF LineInOrder, Holding
<1>2. CASE Start \/ Exit \/ Join
  BY <1>2 DEF Start, Exit, Join, LineInOrder, LineIsAdmitted, Holding
<1>3. ASSUME NEW r \in Request, ExecuteQueued(r)
      PROVE  LineInOrder'
  <2>1. /\ \A a, b : Before(admitted, a, b) => Before(admitted', a, b)
        /\ \A a : In(admitted, a) => Before(admitted', a, r)
    BY <1>3, AppendKeepsOrder DEF ExecuteQueued, Enqueue, ExecutorTypeOK
  <2>2. \A j \in 1..Len(queue') : \/ j \in 1..Len(queue) /\ queue'[j] = queue[j]
                                  \/ j = Len(queue) + 1 /\ queue'[j] = r
    BY <1>3, AppendElements DEF ExecuteQueued, Enqueue, ExecutorTypeOK
  <2>3. /\ \A i, j \in 1..Len(ran) : i < j => Before(admitted', ran[i], ran[j])
        /\ Holding => \A i \in 1..Len(ran) : Before(admitted', ran[i], work)
    BY <2>1 DEF LineInOrder
  <2>4. \A i \in 1..Len(ran), j \in 1..Len(queue') : Before(admitted', ran[i], queue'[j])
    BY <2>1, <2>2 DEF LineInOrder, LineIsAdmitted
  <2>5. work # NoRequest => \A j \in 1..Len(queue') : Before(admitted', work, queue'[j])
    BY <2>1, <2>2 DEF LineInOrder, LineIsAdmitted
  <2>6. \A i, j \in 1..Len(queue') : i < j => Before(admitted', queue'[i], queue'[j])
    <3> SUFFICES ASSUME NEW i \in 1..Len(queue'), NEW j \in 1..Len(queue'), i < j
                 PROVE  Before(admitted', queue'[i], queue'[j])
      OBVIOUS
    <3>1. i \in 1..Len(queue) /\ queue'[i] = queue[i]
      BY <2>2, <1>3 DEF ExecuteQueued, Enqueue, ExecutorTypeOK
    <3>2. CASE j \in 1..Len(queue) /\ queue'[j] = queue[j]
      BY <2>1, <3>1, <3>2 DEF LineInOrder
    <3>3. CASE queue'[j] = r
      BY <2>1, <3>1, <3>3 DEF LineIsAdmitted
    <3> QED
      BY <2>2, <3>2, <3>3
  <2> QED
    BY <1>3, <2>3, <2>4, <2>5, <2>6 DEF ExecuteQueued, Enqueue, LineInOrder, Holding
<1>4. CASE Pop
  <2>1. /\ queue' = Tail(queue) /\ work' = queue[1] /\ 1 \in 1..Len(queue)
        /\ \A j \in 1..Len(queue') : j + 1 \in 1..Len(queue) /\ queue'[j] = queue[j + 1] /\ 1 < j + 1
    BY <1>4, HeadAndTail DEF Pop, ExecutorTypeOK
  <2>2. UNCHANGED <<admitted, ran>>
    BY <1>4 DEF Pop
  <2>3. \A i, j \in 1..Len(queue') : i < j => Before(admitted, queue'[i], queue'[j])
    BY <2>1 DEF LineInOrder
  <2> QED
    BY <2>1, <2>2, <2>3 DEF LineInOrder, Holding
<1>5. CASE CheckCancelled \/ MarkStarted
  BY <1>5 DEF CheckCancelled, Skip, Proceed, MarkStarted, LineInOrder, LineIsAdmitted, Holding
<1>6. CASE RunOperation
  <2>2. work \in Request /\ work # NoRequest /\ Holding
    BY <1>6 DEF RunOperation, LineIsAdmitted, Holding, ExecutorTypeOK
  <2>1. \A i \in 1..Len(ran') : \/ i \in 1..Len(ran) /\ ran'[i] = ran[i]
                                \/ i = Len(ran) + 1 /\ ran'[i] = work
    BY <1>6, <2>2, AppendElements DEF RunOperation, ExecutorTypeOK
  <2>3. \A i, j \in 1..Len(ran') : i < j => Before(admitted, ran'[i], ran'[j])
    <3> SUFFICES ASSUME NEW i \in 1..Len(ran'), NEW j \in 1..Len(ran'), i < j
                 PROVE  Before(admitted, ran'[i], ran'[j])
      OBVIOUS
    <3>1. i \in 1..Len(ran) /\ ran'[i] = ran[i]
      BY <2>1, <1>6 DEF RunOperation, ExecutorTypeOK
    <3> QED
      BY <2>1, <2>2, <3>1 DEF LineInOrder
  <2>4. \A i \in 1..Len(ran'), j \in 1..Len(queue) : Before(admitted, ran'[i], queue[j])
    BY <2>1, <2>2 DEF LineInOrder
  <2> QED
    BY <1>6, <2>3, <2>4 DEF RunOperation, LineInOrder, Holding
<1>7. ASSUME NEW outcome, Publish(outcome)
      PROVE  LineInOrder'
  BY <1>7 DEF Publish, LineInOrder, Holding
<1> QED
  BY <1>1, <1>2, <1>3, <1>4, <1>5, <1>6, <1>7
     DEF ExecutorNext, WorkerStep, OperationStep, WaitStep, executorVars, Drain,
         ExecuteStopped, ExecuteBusy, WaitReady, WaitExpires, ClassifyExpiry, Return

\* MarkStarted is followed by the run; ClassifyExpiry reads the mark.
LEMMA StartedIsHonestStep ==
  ASSUME ExecutorTypeOK, LineIsAdmitted, StartedIsHonest, [ExecutorNext]_executorVars
  PROVE  StartedIsHonest'
<1> USE DEF gateVars, workVars, callVars, threadVars, historyVars
<1>1. CASE UNCHANGED <<started, status, ran, worker, work>>
  BY <1>1 DEF StartedIsHonest, HasRun
<1>2. CASE Start \/ Exit \/ Join \/ Pop
  BY <1>2 DEF Start, Exit, Join, Pop, StartedIsHonest, HasRun
<1>3. ASSUME NEW r \in Request, ExecuteStopped(r) \/ ExecuteBusy(r) \/ WaitReady(r)
      PROVE  StartedIsHonest'
  BY <1>3 DEF ExecuteStopped, ExecuteBusy, WaitReady, Return, StartedIsHonest, HasRun,
              ExecutorTypeOK
<1>4. ASSUME NEW r \in Request, ClassifyExpiry(r)
      PROVE  StartedIsHonest'
  BY <1>4 DEF ClassifyExpiry, Return, StartedIsHonest, HasRun, ExecutorTypeOK
<1>5. CASE CheckCancelled
  BY <1>5 DEF CheckCancelled, Skip, Proceed, StartedIsHonest, HasRun
<1>6. CASE MarkStarted
  <2>1. \A r \in Request : started'[r] => started[r] \/ r = work
    BY <1>6 DEF MarkStarted, ExecutorTypeOK
  <2>2. \A r \in Request : started[r] => started'[r]
    BY <1>6 DEF MarkStarted, ExecutorTypeOK
  <2> QED
    BY <1>6, <2>1, <2>2 DEF MarkStarted, StartedIsHonest, HasRun
<1>7. CASE RunOperation
  <2>1. work \in Request
    BY <1>7 DEF RunOperation, LineIsAdmitted, ExecutorTypeOK
  <2>2. /\ Len(ran') = Len(ran) + 1 /\ Len(ran) \in Nat
        /\ \A i \in 1..Len(ran) : ran'[i] = ran[i]
        /\ ran'[Len(ran) + 1] = work
    BY <1>7, <2>1 DEF RunOperation, ExecutorTypeOK
  <2>3. \A r : HasRun(r) \/ r = work => HasRun(r)'
    BY <2>2 DEF HasRun
  <2> QED
    BY <1>7, <2>3 DEF RunOperation, StartedIsHonest
<1>8. ASSUME NEW outcome, Publish(outcome)
      PROVE  StartedIsHonest'
  BY <1>8 DEF Publish, StartedIsHonest, HasRun
<1> QED
  BY <1>1, <1>2, <1>3, <1>4, <1>5, <1>6, <1>7, <1>8
     DEF ExecutorNext, WorkerStep, OperationStep, WaitStep, executorVars, Drain,
         ExecuteQueued, Enqueue, WaitExpires

\* Drain closes the gate in the same critical section in which it cancels.
LEMMA StopCancelsQueueStep ==
  ASSUME ExecutorTypeOK, StopCancelsQueue, [ExecutorNext]_executorVars
  PROVE  StopCancelsQueue'
<1> USE DEF gateVars, workVars, callVars, threadVars, historyVars
<1>1. \A j \in 1..Len(queue) : queue[j] \in Request
  BY DEF ExecutorTypeOK
<1>2. CASE UNCHANGED <<accepting, stopping, queue, cancelled>>
  BY <1>2 DEF StopCancelsQueue
<1>3. CASE Start \/ Join
  BY <1>3 DEF Start, Join, StopCancelsQueue
<1>4. CASE Drain
  <2>1. \A j \in 1..Len(queue) : cancelled'[queue[j]]
    BY <1>1, <1>4 DEF Drain, Queued
  <2> QED
    BY <1>4, <2>1 DEF Drain, StopCancelsQueue
<1>5. ASSUME NEW r \in Request, ExecuteQueued(r)
      PROVE  StopCancelsQueue'
  BY <1>5 DEF ExecuteQueued, Enqueue, StopCancelsQueue
<1>6. ASSUME NEW r \in Request, WaitExpires(r)
      PROVE  StopCancelsQueue'
  <2>1. \A q \in Request : cancelled[q] => cancelled'[q]
    BY <1>6 DEF WaitExpires, ExecutorTypeOK
  <2> QED
    BY <1>1, <1>6, <2>1 DEF WaitExpires, StopCancelsQueue
<1>7. CASE Pop
  <2>1. \A j \in 1..Len(queue') : j + 1 \in 1..Len(queue) /\ queue'[j] = queue[j + 1]
    BY <1>7, HeadAndTail DEF Pop, ExecutorTypeOK
  <2> QED
    BY <1>7, <2>1 DEF Pop, StopCancelsQueue
<1> QED
  BY <1>2, <1>3, <1>4, <1>5, <1>6, <1>7
     DEF ExecutorNext, WorkerStep, OperationStep, WaitStep, executorVars, Exit,
         ExecuteStopped, ExecuteBusy, WaitReady, ClassifyExpiry, Return,
         CheckCancelled, Skip, Proceed, MarkStarted, RunOperation, Publish

\* The whole invariant is inductive.
LEMMA ExecutorInvStep ==
  ASSUME ExecutorTypeOK, ExecutorInv, [ExecutorNext]_executorVars
  PROVE  ExecutorTypeOK' /\ ExecutorInv'
BY ExecutorTypeStep, AdmittedOnceStep, LineIsAdmittedStep, LineInOrderStep,
   StartedIsHonestStep, StopCancelsQueueStep DEF ExecutorInv

-----------------------------------------------------------------------------
(* The theorems.                                                           *)

\* The executor's state is well typed and its queue never outgrows kCapacity.
THEOREM ExecutorTypeCorrect == ExecutorSpec => []ExecutorTypeOK
<1>1. ExecutorTypeOK /\ ExecutorInv /\ [ExecutorNext]_executorVars
        => (ExecutorTypeOK /\ ExecutorInv)'
  BY ExecutorInvStep
<1> QED
  BY <1>1, ExecutorInitInv, PTL DEF ExecutorSpec

\* Nothing precedes itself in the order of admission.
LEMMA NotBeforeItself ==
  ASSUME ExecutorTypeOK, AdmittedOnce, NEW a
  PROVE  ~Before(admitted, a, a)
BY DEF Before, ExecutorTypeOK, AdmittedOnce

\* The invariant holds in every reachable state.
LEMMA ExecutorInvariant == ExecutorSpec => [](ExecutorTypeOK /\ ExecutorInv)
<1>1. ExecutorTypeOK /\ ExecutorInv /\ [ExecutorNext]_executorVars
        => (ExecutorTypeOK /\ ExecutorInv)'
  BY ExecutorInvStep
<1> QED
  BY <1>1, ExecutorInitInv, PTL DEF ExecutorSpec

\* What Execute() refused is in neither the line nor the history, and what runs
\* is in the order of admission.
LEMMA InvImpliesRunsAreAdmitted ==
  ASSUME ExecutorTypeOK, ExecutorInv
  PROVE  RunsAreAdmitted
<1>1. RunsOnceInOrder
  BY DEF RunsOnceInOrder, ExecutorInv, LineInOrder, Before
<1>2. \A a : In(admitted, a) => status[a] \notin {"busy", "stopped"}
  BY DEF In, ExecutorInv, AdmittedOnce
<1>3. RefusedNeverRuns
  BY <1>2, RequestAssumption
     DEF RefusedNeverRuns, HasRun, Queued, ExecutorInv, LineIsAdmitted
<1> QED
  BY <1>1, <1>3 DEF RunsAreAdmitted

\* Debugger operations run in the order in which they were admitted, and a
\* refused one never runs.
THEOREM RunsAreAdmittedHolds == ExecutorSpec => []RunsAreAdmitted
<1>1. ExecutorTypeOK /\ ExecutorInv => RunsAreAdmitted
  BY InvImpliesRunsAreAdmitted
<1> QED
  BY <1>1, ExecutorInvariant, PTL

\* Each admitted operation runs at most once: one that has run is neither held
\* nor queued, and no two places of the history hold the same request.
RunsAtMostOnce ==
  /\ \A i, j \in 1..Len(ran) : i # j => ran[i] # ran[j]
  /\ \A r \in Request : HasRun(r) => ~Queued(r) /\ ~(Holding /\ work = r)

\* RunsAtMostOnce, from the order of the line: nothing precedes itself.
LEMMA InvImpliesRunsAtMostOnce ==
  ASSUME ExecutorTypeOK, ExecutorInv
  PROVE  RunsAtMostOnce
<1>1. \A a : ~Before(admitted, a, a)
  BY NotBeforeItself DEF ExecutorInv
<1>2. \A i, j \in 1..Len(ran) : i # j => ran[i] # ran[j]
  <2> SUFFICES ASSUME NEW i \in 1..Len(ran), NEW j \in 1..Len(ran), i # j
               PROVE  ran[i] # ran[j]
    OBVIOUS
  <2>1. i < j \/ j < i
    BY DEF ExecutorTypeOK
  <2> QED
    BY <1>1, <2>1 DEF ExecutorInv, LineInOrder
<1>3. \A r \in Request : HasRun(r) => ~Queued(r) /\ ~(Holding /\ work = r)
  BY <1>1 DEF HasRun, Queued, ExecutorInv, LineInOrder
<1> QED
  BY <1>2, <1>3 DEF RunsAtMostOnce

\* No operation is run twice, whatever times out or is stopped and restarted.
THEOREM RunsAtMostOnceHolds == ExecutorSpec => []RunsAtMostOnce
<1>1. ExecutorTypeOK /\ ExecutorInv => RunsAtMostOnce
  BY InvImpliesRunsAtMostOnce
<1> QED
  BY <1>1, ExecutorInvariant, PTL

\* The verdict `timedOutStarted' is given only to an operation that has run or
\* is about to.
THEOREM StartedExpiryIsHonestHolds == ExecutorSpec => []StartedExpiryIsHonest
<1>1. ExecutorInv => StartedExpiryIsHonest
  BY DEF ExecutorInv, StartedIsHonest, StartedExpiryIsHonest
<1> QED
  BY <1>1, ExecutorInvariant, PTL

\* Request r has been given up and has not run: the worker will skip it.
GivenUp(r) ==
  /\ cancelled[r]
  /\ execute[r] # "idle"
  /\ ~HasRun(r)
  /\ work = r => worker = "popped"

\* A request that is queued when it is cancelled, or when Stop begins, is given
\* up: it has not run and is not in the worker's hands.
LEMMA QueuedAndCancelledIsGivenUp ==
  ASSUME ExecutorTypeOK, ExecutorInv, NEW r \in Request, Queued(r), cancelled[r] \/ stopping
  PROVE  GivenUp(r)
<1>1. \A a : ~Before(admitted, a, a)
  BY NotBeforeItself DEF ExecutorInv
<1>2. ~HasRun(r) /\ work # r
  BY <1>1, RequestAssumption DEF HasRun, Queued, ExecutorInv, LineInOrder
<1>3. execute[r] # "idle"
  BY DEF Queued, In, ExecutorInv, LineIsAdmitted, AdmittedOnce
<1>4. cancelled[r]
  BY DEF Queued, ExecutorInv, StopCancelsQueue
<1> QED
  BY <1>2, <1>3, <1>4 DEF GivenUp

\* The worker looks at `cancelled' after the pop and before `started', so what is
\* given up stays so, through any number of stops and starts.
LEMMA GivenUpStep ==
  ASSUME ExecutorTypeOK, ExecutorInv, NEW r \in Request, GivenUp(r),
         [ExecutorNext]_executorVars
  PROVE  GivenUp(r)'
<1> USE DEF gateVars, workVars, callVars, threadVars, historyVars
<1>1. CASE UNCHANGED <<cancelled, execute, ran, worker, work>>
  BY <1>1 DEF GivenUp, HasRun
<1>2. CASE Start \/ Exit \/ Join
  BY <1>2, RequestAssumption
     DEF Start, Exit, Join, GivenUp, HasRun, ExecutorInv, LineIsAdmitted
<1>3. CASE Drain
  BY <1>3 DEF Drain, GivenUp, HasRun
<1>4. ASSUME NEW q \in Request,
             ExecuteStopped(q) \/ ExecuteBusy(q) \/ ExecuteQueued(q) \/ WaitStep(q)
      PROVE  GivenUp(r)'
  BY <1>4 DEF ExecuteStopped, ExecuteBusy, ExecuteQueued, Enqueue, WaitStep, WaitReady,
              WaitExpires, ClassifyExpiry, Return, GivenUp, HasRun, ExecutorTypeOK
<1>5. CASE Pop
  BY <1>5 DEF Pop, GivenUp, HasRun
<1>6. CASE CheckCancelled
  BY <1>6, RequestAssumption DEF CheckCancelled, Skip, Proceed, GivenUp, HasRun
<1>7. CASE MarkStarted
  BY <1>7 DEF MarkStarted, GivenUp, HasRun
<1>8. CASE RunOperation
  <2>1. work \in Request /\ work # r
    BY <1>8 DEF RunOperation, GivenUp, ExecutorInv, LineIsAdmitted, ExecutorTypeOK
  <2>2. \A i \in 1..Len(ran') : (i \in 1..Len(ran) /\ ran'[i] = ran[i]) \/ ran'[i] = work
    BY <1>8, <2>1, AppendElements DEF RunOperation, ExecutorTypeOK
  <2>3. ~HasRun(r)'
    BY <2>1, <2>2 DEF GivenUp, HasRun
  <2> QED
    BY <1>8, <2>1, <2>3 DEF RunOperation, GivenUp
<1>9. ASSUME NEW outcome, Publish(outcome)
      PROVE  GivenUp(r)'
  BY <1>9, RequestAssumption DEF Publish, GivenUp, HasRun
<1> QED
  BY <1>1, <1>2, <1>3, <1>4, <1>5, <1>6, <1>7, <1>8, <1>9
     DEF ExecutorNext, WorkerStep, OperationStep, executorVars

\* One request that was given up in the queue never runs.
LEMMA GivenUpForEver ==
  ASSUME NEW r \in Request
  PROVE  ExecutorSpec =>
           []((Queued(r) /\ (cancelled[r] \/ stopping)) => [](~HasRun(r)))
<1>1. ExecutorTypeOK /\ ExecutorInv /\ Queued(r) /\ (cancelled[r] \/ stopping) => GivenUp(r)
  BY QueuedAndCancelledIsGivenUp
<1>2. ExecutorTypeOK /\ ExecutorInv /\ GivenUp(r) /\ [ExecutorNext]_executorVars => GivenUp(r)'
  BY GivenUpStep
<1>3. GivenUp(r) => ~HasRun(r)
  BY DEF GivenUp
<1> QED
  BY <1>1, <1>2, <1>3, ExecutorInvariant, PTL DEF ExecutorSpec

\* An operation that is still queued when its caller's deadline cancels it, or
\* when Stop begins, never runs.
THEOREM GivenUpInQueueNeverRunsHolds == ExecutorSpec => GivenUpInQueueNeverRuns
BY GivenUpForEver DEF GivenUpInQueueNeverRuns

-----------------------------------------------------------------------------
(* The backend.                                                            *)

LoopTypeOK ==
  /\ loop \in {"reading", "serving", "inline", "ended"}
  /\ serving \in Request \cup {NoRequest}
  /\ draining \in BOOLEAN

\* The loop has a request in hand exactly while it serves one; an unanswered
\* one may stay behind when the loop ends.
LoopHolds ==
  /\ loop = "reading" => serving = NoRequest
  /\ loop \in {"serving", "inline"} => serving \in Request
  /\ loop = "inline" => execute[serving] = "idle"
  /\ serving # NoRequest => serving \in sent

\* Only the request that the loop serves is inside Execute(), and the executor
\* is stopped after the loop has ended.
LoopOwnsCalls ==
  /\ \A r \in Request : execute[r] \in {"waiting", "cancelling"} =>
                          loop = "serving" /\ serving = r
  /\ stopping => loop = "ended"

\* Whatever has called Execute() was sent.
CallsWereSent == \A r \in Request : execute[r] # "idle" => r \in sent

\* A request that waits in the pipe is untouched: it is there once, it is not
\* being served, nothing has executed or performed it.
PipeIsFresh ==
  /\ \A k, l \in 1..Len(toPlugin) : toPlugin[k] = toPlugin[l] /\ k # l => toPlugin[k] = NoRequest
  /\ \A k \in 1..Len(toPlugin) : toPlugin[k] # NoRequest =>
       /\ toPlugin[k] # serving
       /\ execute[toPlugin[k]] = "idle"
       /\ toPlugin[k] \notin applied
  /\ loop = "serving" /\ execute[serving] = "idle" => serving \notin applied

\* Request r is in the executor's queue or in its worker's hands.
InExecutor(r) == Queued(r) \/ work = r

\* A completed item has left the executor, and what it says of a mutation is so.
CompletionIsHonest ==
  \A r \in Request :
    /\ completion[r] # "none" => execute[r] # "idle" /\ ~InExecutor(r)
    /\ completion[r] = "ok" /\ Mutation(r) => r \in applied
    /\ completion[r] = "error" => r \notin applied \/ r \in Hasty
    /\ execute[r] = "returned" => status[r] # "none"
    /\ status[r] = "completed" => completion[r] # "none"
    /\ r \in applied /\ execute[r] # "idle" => HasRun(r)

\* Request c has been answered, or lost: it is never served again.
Gone(c) == c \in sent /\ serving # c /\ \A k \in 1..Len(toPlugin) : toPlugin[k] # c

\* A definite error may be told of c.
ErrorIsSafe(c) ==
  \/ ~Mutation(c)
  \/ status[c] = "timedOutQueued"
  \/ c \notin applied /\ ~InExecutor(c)
  \/ c \in Hasty

\* Errors on their way, told and recorded.
ErrorsAreHonest ==
  \A c \in Request :
    /\ \A k \in 1..Len(toSidecar) : toSidecar[k].id = c /\ toSidecar[k].answer = "error" =>
         Gone(c) /\ ErrorIsSafe(c)
    /\ result[c] = "error" => (c \notin sent /\ call[c] = "returned") \/ (Gone(c) /\ ErrorIsSafe(c))
    /\ \A i \in DOMAIN entries : owner[i] = c /\ entries[i].value = "error" =>
         Gone(c) /\ ErrorIsSafe(c)

BackendInv ==
  /\ LoopTypeOK
  /\ LoopHolds
  /\ LoopOwnsCalls
  /\ CallsWereSent
  /\ PipeIsFresh
  /\ CompletionIsHonest
  /\ ErrorsAreHonest

BackendIInv == IInv /\ ExecutorTypeOK /\ ExecutorInv /\ BackendInv

-----------------------------------------------------------------------------
(* Backend's steps, seen from its two components.                          *)

\* Every step of the composition is a step of the executor or leaves it alone.
LEMMA ExecutorProjection ==
  ASSUME LoopHolds, [BackendNext]_backendVars
  PROVE  [ExecutorNext]_executorVars
<1>1. CASE Submit
  BY <1>1 DEF Submit, ExecutorNext, LoopHolds
<1>2. CASE ExecutorWorks \/ RunHandler
  BY <1>2 DEF ExecutorWorks, RunHandler, ExecutorNext, OperationStep
<1>3. CASE HandlerReturns
  BY <1>3, BackendAssumption DEF HandlerReturns, ExecutorNext, OperationStep
<1>4. CASE StopExecutor
  BY <1>4 DEF StopExecutor, ExecutorNext
<1>5. CASE ReadRequest \/ LoopEnds \/ RejectEarly \/ ServeInline \/ ReplyInline \/ Respond
  BY <1>5 DEF ReadRequest, LoopEnds, RejectEarly, ServeInline, ReplyInline, Respond, Reply
<1>6. CASE BeginStop \/ Disconnect \/ (Sidecar /\ UNCHANGED <<executorVars, loopVars>>)
  BY <1>6 DEF BeginStop, Disconnect
<1>7. CASE UNCHANGED backendVars
  BY <1>7 DEF backendVars
<1> QED
  BY <1>1, <1>2, <1>3, <1>4, <1>5, <1>6, <1>7 DEF BackendNext, IpcLoop

\* What a step of the sidecar can do to the pipe: append a request that was not
\* sent before, or the remains of one.
SidecarWrites ==
  /\ UNCHANGED <<pipeOpen, applied>>
  /\ \/ UNCHANGED <<toPlugin, sent>>
     \/ toPlugin' = Append(toPlugin, NoRequest) /\ UNCHANGED sent
     \/ \E c \in Request : /\ call[c] = "writing"
                           /\ toPlugin' = Append(toPlugin, c)
                           /\ sent' = sent \cup {c}
  /\ \A c \in Request : call[c] # "idle" => op'[c] = op[c]
  /\ \A c \in Request : call[c] = "returned" => call'[c] = "returned"

\* What it can do with errors: take one from the pipe, replay one to a call that
\* sends nothing, record one that was answered.
FramesStay ==
  \A k \in 1..Len(toSidecar') :
    \/ toSidecar'[k].id = NoRequest
    \/ \E l \in 1..Len(toSidecar) : toSidecar'[k] = toSidecar[l]
ErrorsLearnt ==
  \A c \in Request : result'[c] = "error" =>
    \/ result[c] = "error"
    \/ \E k \in 1..Len(toSidecar) : toSidecar[k].id = c /\ toSidecar[k].answer = "error"
    \/ call[c] = "idle" /\ call'[c] = "returned" /\ sent' = sent
ErrorsRecorded ==
  \A i \in DOMAIN entries' : entries'[i].value = "error" =>
    /\ i \in DOMAIN entries /\ owner'[i] = owner[i]
    /\ \/ entries[i].value = "error"
       \/ result[owner[i]] = "error" /\ call[owner[i]] = "answered"

\* The sidecar's steps on the pipe, action by action.
LEMMA SidecarWritesHolds ==
  ASSUME AdapterTypeOK, Sidecar
  PROVE  SidecarWrites
<1> USE DEF ledgerVars, futureVars, pipeVars, ghostVars, Goto, Learn
<1>0. FuturesTypeOK
  BY DEF AdapterTypeOK
<1>1. ASSUME NEW c \in Request, CallRead(c) \/ PassReadyCheck(c) \/ FailReadyCheck(c)
                                \/ AcquireStream(c)
      PROVE  SidecarWrites
  BY <1>0, <1>1 DEF SidecarWrites, FuturesTypeOK, CallRead, PassReadyCheck, FailReadyCheck,
                    AcquireStream
<1>2. ASSUME NEW c \in Request, NEW id, NEW f, CallMutation(c, id, f)
      PROVE  SidecarWrites
  BY <1>0, <1>2 DEF SidecarWrites, FuturesTypeOK, CallMutation
<1>3. ASSUME NEW c \in Request, WriteRequest(c)
      PROVE  SidecarWrites
  BY <1>0, <1>3 DEF SidecarWrites, FuturesTypeOK, WriteRequest
<1>4. ASSUME NEW c \in Request, ReadOwn(c) \/ DrainStale(c) \/ ReadForeign(c) \/ ExchangeError(c)
      PROVE  SidecarWrites
  BY <1>0, <1>4 DEF SidecarWrites, FuturesTypeOK, ReadOwn, DrainStale, ReadForeign,
                    ExchangeError, Arrived
<1>5. ASSUME NEW c \in Request, Timeout(c) \/ Cancel(c)
      PROVE  SidecarWrites
  <2>1. UNCHANGED <<sent, op, pipeOpen, applied>>
    BY <1>5 DEF Timeout, Cancel
  <2>2. UNCHANGED toPlugin \/ toPlugin' = Append(toPlugin, NoRequest)
    BY <1>5 DEF Timeout, Cancel, Tear
  <2>3. \A d \in Request : call[d] = "returned" => call'[d] = "returned"
    BY <1>0, <1>5 DEF Timeout, Cancel, Suspended, FuturesTypeOK
  <2> QED
    BY <2>1, <2>2, <2>3 DEF SidecarWrites
<1>6. ASSUME NEW c \in Request, Settle(c) \/ Fail(c) \/ Remember(c)
      PROVE  SidecarWrites
  BY <1>0, <1>6 DEF SidecarWrites, FuturesTypeOK, Settle, Fail, Remember
<1>7. CASE LedgerTick
  BY <1>7 DEF SidecarWrites, LedgerTick
<1> QED
  BY <1>1, <1>2, <1>3, <1>4, <1>5, <1>6, <1>7 DEF Sidecar, Client, Progress

\* Frames leave the pipe to the sidecar or are torn; none is made up.
LEMMA FramesStayHolds ==
  ASSUME AdapterTypeOK, Sidecar
  PROVE  FramesStay
<1> USE DEF ledgerVars, futureVars, pipeVars, ghostVars, Goto, Learn
<1>1. CASE UNCHANGED toSidecar
  BY <1>1 DEF FramesStay
<1>2. CASE toSidecar # <<>> /\ toSidecar' = Tail(toSidecar)
  <2>1. \A k \in 1..Len(toSidecar') :
          k + 1 \in 1..Len(toSidecar) /\ toSidecar'[k] = toSidecar[k + 1]
    BY <1>2, HeadAndTail DEF AdapterTypeOK, PipeTypeOK
  <2> QED
    BY <2>1 DEF FramesStay
<1>3. ASSUME NEW c \in Request, Tear(c)
      PROVE  FramesStay
  <2>1. CASE Arrived(c) /\ toSidecar' = <<Torn>> \o Tail(toSidecar)
    <3>1. Torn.id = NoRequest /\ Torn \in Frame
      BY DEF Torn, Frame, Answer
    <3> DEFINE rest == Tail(toSidecar)
    <3>2. /\ rest \in Seq(Frame)
          /\ \A k \in 1..Len(rest) : k + 1 \in 1..Len(toSidecar) /\ rest[k] = toSidecar[k + 1]
      BY <2>1, HeadAndTail DEF Arrived, AdapterTypeOK, PipeTypeOK
    <3> HIDE DEF rest
    <3>3. /\ (<<Torn>> \o rest)[1] = Torn
          /\ \A k \in 1..Len(<<Torn>> \o rest) :
               k = 1 \/ (k - 1 \in 1..Len(rest) /\ (<<Torn>> \o rest)[k] = rest[k - 1])
      BY <3>1, <3>2
    <3>4. toSidecar' = <<Torn>> \o rest
      BY <2>1 DEF rest
    <3> QED
      BY <3>1, <3>2, <3>3, <3>4 DEF FramesStay
  <2> QED
    BY <1>1, <1>3, <2>1 DEF Tear
<1> QED
  BY <1>1, <1>2, <1>3
     DEF Sidecar, Client, Progress, CallRead, CallMutation, PassReadyCheck, FailReadyCheck,
         AcquireStream, WriteRequest, ReadOwn, DrainStale, ReadForeign, ExchangeError, Arrived,
         Timeout, Cancel, Settle, Fail, Remember, LedgerTick

\* A call learns an error from its own frame or from the ledger.
LEMMA ErrorsLearntHolds ==
  ASSUME AdapterTypeOK, Sidecar
  PROVE  ErrorsLearnt
<1> USE DEF ledgerVars, futureVars, pipeVars, ghostVars, Goto, Learn
<1>0. FuturesTypeOK
  BY DEF AdapterTypeOK
<1>1. CASE UNCHANGED result
  BY <1>1 DEF ErrorsLearnt
<1>2. ASSUME NEW c \in Request, NEW id, NEW f, CallMutation(c, id, f)
      PROVE  ErrorsLearnt
  BY <1>0, <1>2 DEF CallMutation, ErrorsLearnt, FuturesTypeOK
<1>3. ASSUME NEW c \in Request, NEW x, x # "error", Learn(c, x)
      PROVE  ErrorsLearnt
  BY <1>0, <1>3 DEF ErrorsLearnt, FuturesTypeOK
<1>4. ASSUME NEW c \in Request, FailReadyCheck(c) \/ ReadForeign(c) \/ ExchangeError(c)
                                \/ Timeout(c) \/ Cancel(c)
      PROVE  ErrorsLearnt
  <2>1. \E x \in {"unavailable", "internal", "mismatch", "io", "timeout", "cancelled"} : Learn(c, x)
    BY <1>4 DEF FailReadyCheck, ReadForeign, ExchangeError, Timeout, Cancel
  <2> QED
    BY <1>3, <2>1
<1>5. ASSUME NEW c \in Request, ReadOwn(c)
      PROVE  ErrorsLearnt
  <2>1. Head(toSidecar) = toSidecar[1] /\ 1 \in 1..Len(toSidecar)
    BY <1>5, HeadAndTail DEF ReadOwn, Arrived, AdapterTypeOK, PipeTypeOK
  <2> QED
    BY <1>0, <1>5, <2>1 DEF ReadOwn, OwnFrame, ErrorsLearnt, FuturesTypeOK
<1>6. ASSUME NEW c \in Request, Settle(c)
      PROVE  ErrorsLearnt
  BY <1>1, <1>3, <1>6 DEF Settle
<1> QED
  BY <1>1, <1>2, <1>4, <1>5, <1>6
     DEF Sidecar, Client, Progress, CallRead, PassReadyCheck, AcquireStream, WriteRequest,
         DrainStale, Fail, Remember, LedgerTick

\* The ledger records an error only for the call that owns the entry and was
\* answered with it.
LEMMA ErrorsRecordedHolds ==
  ASSUME IInv, Sidecar
  PROVE  ErrorsRecorded
<1> USE DEF ledgerVars, futureVars, pipeVars, ghostVars
<1>0. LedgerTypeOK /\ HistoryTypeOK /\ Owned
  BY DEF IInv, AdapterTypeOK, AdapterInv
<1>1. CASE UNCHANGED <<entries, owner>>
  BY <1>1 DEF ErrorsRecorded
<1>2. ASSUME NEW c \in Request, NEW id \in OperationId, NEW f, CallMutation(c, id, f)
      PROVE  ErrorsRecorded
  <2>1. Begin(id, f)
    BY <1>2 DEF CallMutation
  <2>2. \A i \in DOMAIN entries' : i \notin Retained =>
          i = id /\ entries'[i].value = NoValue
    BY <2>1 DEF Begin, Admitted
  <2>3. \A i \in Retained : i \in DOMAIN entries /\ entries'[i].value = entries[i].value
    BY <1>0, <2>1, BeginKeeps
  <2>4. \A i \in Retained : owner'[i] = owner[i]
    <3>1. MayStart(Admission(id, f)) => id \notin Retained
      BY <1>0 DEF MayStart, Admission, LedgerTypeOK, Entry, Retained
    <3>2. \A i \in Retained : i \in OperationId
      BY <1>0 DEF LedgerTypeOK, Retained
    <3> QED
      BY <1>0, <1>2, <3>1, <3>2 DEF CallMutation, HistoryTypeOK
  <2> QED
    BY <2>2, <2>3, <2>4 DEF ErrorsRecorded, NoValue
<1>3. ASSUME NEW c \in Request, FailReadyCheck(c)
      PROVE  ErrorsRecorded
  BY <1>3 DEF FailReadyCheck, AbandonUnstarted, ErrorsRecorded
<1>4. ASSUME NEW c \in Request, Settle(c)
      PROVE  ErrorsRecorded
  <2>1. CASE Mutation(c) /\ Complete(op[c], result[c])
    <3>1. /\ DOMAIN entries' = DOMAIN entries
          /\ entries'[op[c]].value = result[c]
          /\ \A i \in DOMAIN entries : i # op[c] => entries'[i] = entries[i]
      BY <2>1 DEF Complete, SetStatus
    <3>2. owner[op[c]] = c /\ call[c] = "answered" /\ UNCHANGED owner
      BY <1>0, <1>4, <2>1 DEF Settle, Owned
    <3> QED
      BY <3>1, <3>2 DEF ErrorsRecorded
  <2> QED
    BY <1>1, <1>4, <2>1 DEF Settle
<1>5. ASSUME NEW c \in Request, Fail(c)
      PROVE  ErrorsRecorded
  <2>1. CASE MarkUnknown(op[c])
    <3>1. /\ DOMAIN entries' = DOMAIN entries
          /\ entries'[op[c]].value = NoValue
          /\ \A i \in DOMAIN entries : i # op[c] => entries'[i] = entries[i]
      BY <2>1 DEF MarkUnknown, SetStatus
    <3> QED
      BY <1>5, <3>1 DEF Fail, ErrorsRecorded, NoValue
  <2> QED
    BY <1>1, <1>5, <2>1 DEF Fail
<1> QED
  BY <1>1, <1>2, <1>3, <1>4, <1>5
     DEF Sidecar, Client, Progress, CallRead, PassReadyCheck, AcquireStream, WriteRequest,
         ReadOwn, DrainStale, ReadForeign, ExchangeError, Timeout, Cancel, Remember, LedgerTick,
         Tick

-----------------------------------------------------------------------------
(* What the loop writes.                                                   *)

\* What is true of an answer before it is written.
Honest(a) ==
  /\ serving \in Request
  /\ a \in Answer \cup {"empty"}
  /\ a = "ok" /\ Mutation(serving) => serving \in applied
  /\ a = "error" => ErrorIsSafe(serving)

\* Outside the executor's line: a request that was not admitted.
LEMMA NotAdmittedIsOutside ==
  ASSUME ExecutorTypeOK, ExecutorInv, NEW r \in Request, ~In(admitted, r)
  PROVE  ~InExecutor(r) /\ ~HasRun(r)
BY RequestAssumption DEF InExecutor, Queued, HasRun, ExecutorInv, LineIsAdmitted

\* A call that has not begun, or was refused, was not admitted.
LEMMA IdleIsNotAdmitted ==
  ASSUME ExecutorInv, NEW r \in Request,
         execute[r] = "idle" \/ status[r] \in {"busy", "stopped"}
  PROVE  ~In(admitted, r)
BY DEF In, ExecutorInv, AdmittedOnce

\* Every reply of the loop is honest: a refusal before the executor, an answer
\* of the inline handler, and what the switch over the status makes of the
\* executor's verdict.
LEMMA RepliesAreHonest ==
  ASSUME BackendIInv, RejectEarly \/ ReplyInline \/ Respond
  PROVE  \E a : Reply(a) /\ Honest(a)
<1>0. /\ ExecutorTypeOK /\ ExecutorInv /\ LoopHolds /\ PipeIsFresh /\ CompletionIsHonest
  BY DEF BackendIInv, BackendInv
<1>1. CASE RejectEarly
  <2>1. Reply("error") /\ serving \in Request /\ execute[serving] = "idle" /\ loop = "serving"
    BY <1>0, <1>1 DEF RejectEarly, LoopHolds
  <2>2. ~InExecutor(serving) /\ serving \notin applied
    BY <1>0, <2>1, NotAdmittedIsOutside, IdleIsNotAdmitted DEF PipeIsFresh
  <2> QED
    BY <2>1, <2>2 DEF Honest, Answer, ErrorIsSafe
<1>2. CASE ReplyInline
  <2>1. serving \in Request /\ execute[serving] = "idle"
    BY <1>0, <1>2 DEF ReplyInline, LoopHolds
  <2>2. ~InExecutor(serving)
    BY <1>0, <2>1, NotAdmittedIsOutside, IdleIsNotAdmitted
  <2>3. PICK a \in Answer : Truthful(a, serving) /\ Reply(a)
    BY <1>2 DEF ReplyInline
  <2> QED
    BY <2>1, <2>2, <2>3 DEF Honest, Truthful, ErrorIsSafe
<1>3. CASE Respond
  <2> DEFINE a == ResponseFor(serving)
  <2>1. Reply(a) /\ serving \in Request /\ execute[serving] = "returned"
    BY <1>0, <1>3 DEF Respond, LoopHolds
  <2>2. status[serving] \in ExecutionStatus
    BY <1>0, <2>1 DEF ExecutorTypeOK, ExecutorInv, CompletionIsHonest
  <2>3. CASE status[serving] = "completed"
    <3>1. a = completion[serving] /\ completion[serving] \in Answer \cup {"empty"}
      BY <1>0, <2>1, <2>3, BackendAssumption
         DEF ResponseFor, CompletionIsHonest, ExecutorTypeOK
    <3> QED
      BY <1>0, <2>1, <3>1 DEF Honest, CompletionIsHonest, ErrorIsSafe, Answer
  <2>4. CASE status[serving] = "timedOutStarted"
    BY <2>1, <2>4 DEF ResponseFor, Honest, ErrorIsSafe, Answer
  <2>5. CASE status[serving] = "timedOutQueued"
    BY <2>1, <2>5 DEF ResponseFor, Honest, ErrorIsSafe, Answer
  <2>6. CASE status[serving] \in {"busy", "stopped"}
    <3>1. ~InExecutor(serving) /\ ~HasRun(serving)
      BY <1>0, <2>1, <2>6, NotAdmittedIsOutside, IdleIsNotAdmitted
    <3>2. serving \notin applied
      BY <1>0, <2>1, <3>1 DEF CompletionIsHonest
    <3> QED
      BY <2>1, <2>6, <3>1, <3>2 DEF ResponseFor, Honest, ErrorIsSafe, Answer
  <2> QED
    BY <2>2, <2>3, <2>4, <2>5, <2>6 DEF ExecutionStatus
<1> QED
  BY <1>1, <1>2, <1>3

-----------------------------------------------------------------------------
(* The adapter's invariant in the composition.                             *)

\* The loop takes a request out of the pipe, or puts an answer into it: only the
\* frames change.
LEMMA FramesOnlyStep ==
  ASSUME IInv, UNCHANGED <<sidecarVars, pipeOpen, ghostVars>>, PipeTypeOK', FramesAreHonest'
  PROVE  IInv'
<1> USE DEF sidecarVars, futureVars, ghostVars
<1>0. OwnershipInv /\ UNCHANGED entries
  BY DEF IInv, AdapterInv, OwnershipInv, ledgerVars
<1>1. OwnershipInv'
  BY <1>0, OwnershipUnchanged
<1>2. OkIsTruthful' /\ NoLostEntry'
  BY DEF IInv, OkIsTruthful, NoLostEntry, Mutation
<1>3. AdapterTypeOK'
  <2>1. LedgerTypeOK' /\ ConnectionTypeOK' /\ HistoryTypeOK'
    BY UnchangedTypes DEF IInv, AdapterTypeOK
  <2>2. FuturesTypeOK'
    BY DEF IInv, AdapterTypeOK, FuturesTypeOK
  <2> QED
    BY <2>1, <2>2 DEF AdapterTypeOK
<1> QED
  BY <1>1, <1>2, <1>3 DEF IInv, AdapterInv, OwnershipInv

\* A mutation that was sent is performed: a step of the adapter's plugin, or no
\* change when it had been performed before.
LEMMA ApplyingIsAdapterStep ==
  ASSUME NEW c \in Request, c \in sent, Mutation(c), applied' = applied \cup {c},
         UNCHANGED <<sidecarVars, pipeVars, sent, owner, expired>>
  PROVE  [AdapterNext]_adapterVars
<1> USE DEF sidecarVars, ghostVars, adapterVars
<1>1. CASE c \in applied
  BY <1>1
<1>2. CASE c \notin applied
  BY <1>2 DEF AdapterNext, Plugin, PluginApplies
<1> QED
  BY <1>1, <1>2

\* What the worker holds was sent.
LEMMA WorkWasSent ==
  ASSUME BackendIInv, work # NoRequest
  PROVE  work \in sent /\ work \in Request /\ execute[work] # "idle"
<1>1. work \in Request
  BY DEF BackendIInv, ExecutorTypeOK
<1>2. In(admitted, work)
  BY DEF BackendIInv, ExecutorInv, LineIsAdmitted
<1>3. execute[work] # "idle"
  BY <1>1, <1>2, IdleIsNotAdmitted DEF BackendIInv
<1> QED
  BY <1>1, <1>3 DEF BackendIInv, BackendInv, CallsWereSent

\* The adapter's inductive invariant survives every step of the composition.
LEMMA AdapterPart ==
  ASSUME BackendIInv, [BackendNext]_backendVars
  PROVE  IInv'
<1> USE DEF sidecarVars, pipeVars, ghostVars
<1>0. /\ IInv /\ PipeTypeOK /\ FramesAreHonest /\ LoopHolds
  BY DEF BackendIInv, IInv, AdapterTypeOK, AdapterInv, BackendInv
<1>1. CASE Sidecar \/ Disconnect
  <2>1. AdapterNext
    BY <1>1 DEF Disconnect, AdapterNext, Plugin
  <2> QED
    BY <1>0, <2>1, IInvStep
<1>2. CASE UNCHANGED adapterVars
  BY <1>0, <1>2, IInvStep
<1>3. CASE ReadRequest
  <2>1. /\ toPlugin # <<>> /\ toPlugin' = Tail(toPlugin)
        /\ UNCHANGED <<sidecarVars, toSidecar, pipeOpen, ghostVars>>
    BY <1>3 DEF ReadRequest
  <2>2. /\ toPlugin' \in Seq(Request \cup {NoRequest})
        /\ \A k \in 1..Len(toPlugin') : k + 1 \in 1..Len(toPlugin) /\ toPlugin'[k] = toPlugin[k + 1]
    BY <1>0, <2>1, HeadAndTail DEF PipeTypeOK
  <2>3. PipeTypeOK'
    BY <1>0, <2>1, <2>2 DEF PipeTypeOK
  <2>4. FramesAreHonest'
    BY <1>0, <2>1, <2>2 DEF FramesAreHonest, Mutation, futureVars
  <2> QED
    BY <1>0, <2>1, <2>3, <2>4, FramesOnlyStep
<1>4. CASE RejectEarly \/ ReplyInline \/ Respond
  <2>1. PICK a : Reply(a) /\ Honest(a)
    BY <1>4, RepliesAreHonest
  <2>2. CASE UNCHANGED toSidecar
    BY <1>2, <2>1, <2>2 DEF Reply, adapterVars
  <2>3. CASE pipeOpen /\ a # "empty" /\ toSidecar' = Append(toSidecar, [id |-> serving, answer |-> a])
    <3> DEFINE frame == [id |-> serving, answer |-> a]
    <3>1. frame.id = serving /\ frame.answer = a /\ frame \in Frame /\ serving \in Request
      BY <2>1, <2>3 DEF Honest, Frame
    <3>2. serving \in sent /\ (a = "ok" /\ Mutation(serving) => serving \in applied)
      BY <1>0, <2>1, RequestAssumption DEF Honest, LoopHolds
    <3>3. UNCHANGED <<sidecarVars, toPlugin, pipeOpen, ghostVars>>
      BY <2>1 DEF Reply
    <3>4. toSidecar' = Append(toSidecar, frame)
      BY <2>3
    <3> HIDE DEF frame
    <3>5. /\ toSidecar' \in Seq(Frame)
          /\ \A k \in 1..Len(toSidecar') : \/ k \in 1..Len(toSidecar) /\ toSidecar'[k] = toSidecar[k]
                                           \/ k = Len(toSidecar) + 1 /\ toSidecar'[k] = frame
      BY <1>0, <3>1, <3>4, AppendElements DEF PipeTypeOK
    <3>6. PipeTypeOK'
      BY <1>0, <3>3, <3>5 DEF PipeTypeOK
    <3>7. FramesAreHonest'
      BY <1>0, <3>1, <3>2, <3>3, <3>5 DEF FramesAreHonest, Mutation, futureVars
    <3> QED
      BY <1>0, <3>3, <3>6, <3>7, FramesOnlyStep
  <2> QED
    BY <2>1, <2>2, <2>3 DEF Reply
<1>5. CASE ServeInline
  <2>1. serving \in Request /\ serving \in sent
    BY <1>0, <1>5, RequestAssumption DEF ServeInline, LoopHolds
  <2>2. [AdapterNext]_adapterVars
    BY <1>5, <2>1, ApplyingIsAdapterStep DEF ServeInline, adapterVars
  <2> QED
    BY <1>0, <2>2, IInvStep
<1>6. CASE RunHandler
  <2>1. work \in Request /\ work \in sent
    BY <1>6, WorkWasSent DEF RunHandler, RunOperation, BackendIInv, ExecutorInv, LineIsAdmitted
  <2>2. [AdapterNext]_adapterVars
    BY <1>6, <2>1, ApplyingIsAdapterStep DEF RunHandler, adapterVars
  <2> QED
    BY <1>0, <2>2, IInvStep
<1> QED
  BY <1>1, <1>2, <1>3, <1>4, <1>5, <1>6
     DEF BackendNext, IpcLoop, LoopEnds, Submit, ExecutorWorks, HandlerReturns, BeginStop,
         StopExecutor, backendVars

-----------------------------------------------------------------------------
(* The loop, the pipe and the completions.                                 *)

\* The executor's variables that a step of its worker or of Stop leaves alone.
LEMMA WorkerKeepsCalls ==
  ASSUME ExecutorWorks \/ RunHandler \/ HandlerReturns \/ StopExecutor
  PROVE  UNCHANGED <<callVars, loopVars, toPlugin, toSidecar, pipeOpen, sent, op, call, result,
                     entries, owner>>
BY DEF ExecutorWorks, RunHandler, HandlerReturns, StopExecutor, WorkerStep, Pop, Exit,
       CheckCancelled, Skip, Proceed, MarkStarted, RunOperation, Publish, Drain, Join, adapterVars,
       sidecarVars, pipeVars, ghostVars, futureVars, ledgerVars

\* A reply is written when the request is no longer inside Execute().
LEMMA ReplyEndsCall ==
  ASSUME BackendIInv, RejectEarly \/ ReplyInline \/ Respond
  PROVE  execute[serving] \in {"idle", "returned"}
BY DEF BackendIInv, BackendInv, LoopHolds, RejectEarly, ReplyInline, Respond

\* The loop's place, the request in hand and the calls it makes.
LEMMA LoopStep ==
  ASSUME BackendIInv, [BackendNext]_backendVars
  PROVE  LoopTypeOK' /\ LoopHolds' /\ LoopOwnsCalls' /\ CallsWereSent'
<1> DEFINE Goal == LoopTypeOK' /\ LoopHolds' /\ LoopOwnsCalls' /\ CallsWereSent'
<1> USE RequestAssumption
        DEF executorVars, gateVars, workVars, callVars, threadVars, historyVars, loopVars,
            pipeVars, ghostVars
<1>0. /\ LoopTypeOK /\ LoopHolds /\ LoopOwnsCalls /\ CallsWereSent
      /\ AdapterTypeOK /\ ExecutorTypeOK /\ FramesAreHonest
  BY DEF BackendIInv, BackendInv, IInv, AdapterInv
<1>1. ASSUME Sidecar, UNCHANGED <<executorVars, loopVars>>
      PROVE  Goal
  <2>1. sent \subseteq sent'
    BY <1>0, <1>1, SidecarWritesHolds DEF SidecarWrites
  <2> QED
    BY <1>0, <1>1, <2>1 DEF LoopTypeOK, LoopHolds, LoopOwnsCalls, CallsWereSent
<1>2. CASE ReadRequest
  <2>1. Head(toPlugin) \in Request /\ Head(toPlugin) \in sent
    <3>1. Head(toPlugin) = toPlugin[1] /\ 1 \in 1..Len(toPlugin)
      BY <1>0, <1>2, HeadAndTail DEF ReadRequest, AdapterTypeOK, PipeTypeOK
    <3>2. toPlugin[1] \in Request \cup {NoRequest}
      BY <1>0, <3>1 DEF AdapterTypeOK, PipeTypeOK
    <3> QED
      BY <1>0, <1>2, <3>1, <3>2 DEF ReadRequest, FramesAreHonest
  <2>2. serving' = Head(toPlugin) /\ loop' \in {"serving", "ended"} /\ loop = "reading"
    BY <1>2 DEF ReadRequest
  <2>3. UNCHANGED <<executorVars, sent, draining>>
    BY <1>2 DEF ReadRequest
  <2>4. stopping' => loop' = "ended"
    BY <1>0, <2>2, <2>3 DEF LoopOwnsCalls
  <2> QED
    BY <1>0, <2>1, <2>2, <2>3, <2>4 DEF LoopTypeOK, LoopHolds, LoopOwnsCalls, CallsWereSent
<1>3. CASE LoopEnds \/ BeginStop
  <2>1. /\ UNCHANGED <<execute, stopping, sent, serving>>
        /\ \/ loop = "reading" /\ loop' = "ended" /\ draining' = draining
           \/ loop' = loop /\ draining' = TRUE
    BY <1>3 DEF LoopEnds, BeginStop, adapterVars
  <2> QED
    BY <1>0, <2>1 DEF LoopTypeOK, LoopHolds, LoopOwnsCalls, CallsWereSent
<1>4. CASE RejectEarly \/ ReplyInline \/ Respond
  <2>1. PICK a : Reply(a)
    BY <1>4, RepliesAreHonest
  <2>2. \/ loop' = "reading" /\ serving' = NoRequest
        \/ loop' = "ended" /\ serving' = serving
    BY <2>1 DEF Reply
  <2>3. UNCHANGED <<executorVars, sent, draining>>
    BY <2>1 DEF Reply
  <2>4. ~stopping /\ \A r \in Request : execute[r] \notin {"waiting", "cancelling"}
    <3>1. loop \in {"serving", "inline"}
      BY <1>4 DEF RejectEarly, ReplyInline, Respond
    <3> QED
      BY <1>0, <1>4, <3>1, ReplyEndsCall DEF LoopOwnsCalls
  <2> QED
    BY <1>0, <2>2, <2>3, <2>4 DEF LoopTypeOK, LoopHolds, LoopOwnsCalls, CallsWereSent
<1>5. CASE ServeInline
  BY <1>0, <1>5 DEF ServeInline, LoopTypeOK, LoopHolds, LoopOwnsCalls, CallsWereSent
<1>6. CASE Submit
  <2>1. loop = "serving" /\ serving \in Request /\ serving \in sent
    BY <1>0, <1>6 DEF Submit, LoopHolds
  <2>2. UNCHANGED <<loopVars, sent, stopping>>
    BY <1>6 DEF Submit, adapterVars, ExecuteStopped, ExecuteBusy, ExecuteQueued, Enqueue,
                WaitStep, WaitReady, WaitExpires, ClassifyExpiry
  <2>3. \A r \in Request : r # serving => execute'[r] = execute[r]
    BY <1>0, <1>6 DEF Submit, ExecuteStopped, ExecuteBusy, ExecuteQueued, Enqueue, Return,
                WaitStep, WaitReady, WaitExpires, ClassifyExpiry, ExecutorTypeOK
  <2> QED
    BY <1>0, <2>1, <2>2, <2>3 DEF LoopTypeOK, LoopHolds, LoopOwnsCalls, CallsWereSent
<1>7. CASE ExecutorWorks \/ RunHandler \/ HandlerReturns
  <2>1. UNCHANGED <<execute, loopVars, sent>>
    BY <1>7, WorkerKeepsCalls
  <2>2. UNCHANGED stopping
    BY <1>7 DEF ExecutorWorks, RunHandler, HandlerReturns, WorkerStep, Pop, Exit,
                CheckCancelled, Skip, Proceed, MarkStarted, RunOperation, Publish
  <2> QED
    BY <1>0, <2>1, <2>2 DEF LoopTypeOK, LoopHolds, LoopOwnsCalls, CallsWereSent
<1>8. CASE StopExecutor
  <2>1. UNCHANGED <<execute, loopVars, sent>> /\ loop = "ended"
    BY <1>8, WorkerKeepsCalls DEF StopExecutor
  <2> QED
    BY <1>0, <2>1 DEF LoopTypeOK, LoopHolds, LoopOwnsCalls, CallsWereSent
<1>9. CASE Disconnect
  BY <1>0, <1>9 DEF Disconnect, PluginCloses, LoopTypeOK, LoopHolds, LoopOwnsCalls, CallsWereSent
<1>10. CASE UNCHANGED backendVars
  BY <1>0, <1>10 DEF backendVars, adapterVars, LoopTypeOK, LoopHolds, LoopOwnsCalls, CallsWereSent
<1> QED
  BY <1>1, <1>2, <1>3, <1>4, <1>5, <1>6, <1>7, <1>8, <1>9, <1>10 DEF BackendNext, IpcLoop

\* The sidecar appends a request that nobody downstream knows.
LEMMA WrittenIsNew ==
  ASSUME BackendIInv, NEW c \in Request, call[c] = "writing"
  PROVE  /\ c \notin sent /\ c \notin applied /\ c # serving /\ execute[c] = "idle"
         /\ \A k \in 1..Len(toPlugin) : toPlugin[k] # c
<1>1. c \notin sent
  BY DEF BackendIInv, IInv, AdapterInv, SentIsPastWriting
<1>2. c \notin applied
  BY <1>1 DEF BackendIInv, IInv, AdapterInv, AppliedWasSent
<1>3. c # serving /\ execute[c] = "idle"
  BY <1>1, RequestAssumption DEF BackendIInv, BackendInv, LoopHolds, CallsWereSent
<1>4. \A k \in 1..Len(toPlugin) : toPlugin[k] # c
  BY <1>1, RequestAssumption DEF BackendIInv, IInv, AdapterInv, FramesAreHonest
<1> QED
  BY <1>1, <1>2, <1>3, <1>4

\* Requests in the pipe stay untouched until they are read.
LEMMA PipeIsFreshStep ==
  ASSUME BackendIInv, [BackendNext]_backendVars
  PROVE  PipeIsFresh'
<1> USE RequestAssumption
        DEF executorVars, gateVars, workVars, callVars, threadVars, historyVars, loopVars,
            pipeVars, ghostVars
<1>0. /\ LoopHolds /\ PipeIsFresh /\ CallsWereSent /\ ExecutorTypeOK /\ AdapterTypeOK
      /\ toPlugin \in Seq(Request \cup {NoRequest})
  BY DEF BackendIInv, BackendInv, IInv, AdapterTypeOK, PipeTypeOK
<1>1. ASSUME Sidecar, UNCHANGED <<executorVars, loopVars>>
      PROVE  PipeIsFresh'
  <2>0. UNCHANGED <<applied, execute, serving, loop>>
    BY <1>0, <1>1, SidecarWritesHolds DEF SidecarWrites
  <2>1. CASE UNCHANGED toPlugin
    BY <1>0, <2>0, <2>1 DEF PipeIsFresh
  <2>2. ASSUME NEW x \in Request \cup {NoRequest}, toPlugin' = Append(toPlugin, x),
               x = NoRequest \/ call[x] = "writing"
        PROVE  PipeIsFresh'
    <3>1. \A k \in 1..Len(toPlugin') : \/ k \in 1..Len(toPlugin) /\ toPlugin'[k] = toPlugin[k]
                                       \/ k = Len(toPlugin) + 1 /\ toPlugin'[k] = x
      BY <1>0, <2>2, AppendElements
    <3>2. x # NoRequest => /\ x \notin applied /\ x # serving /\ execute[x] = "idle"
                           /\ \A k \in 1..Len(toPlugin) : toPlugin[k] # x
      BY <2>2, WrittenIsNew
    <3> QED
      BY <1>0, <2>0, <3>1, <3>2 DEF PipeIsFresh
  <2> QED
    BY <1>0, <1>1, <2>1, <2>2, SidecarWritesHolds DEF SidecarWrites
<1>2. CASE ReadRequest
  <2>1. /\ toPlugin # <<>> /\ Head(toPlugin) # NoRequest /\ serving' = Head(toPlugin)
        /\ toPlugin' = Tail(toPlugin) /\ UNCHANGED <<execute, applied>>
    BY <1>2 DEF ReadRequest
  <2>2. /\ Head(toPlugin) = toPlugin[1] /\ 1 \in 1..Len(toPlugin)
        /\ \A k \in 1..Len(toPlugin') : k + 1 \in 1..Len(toPlugin) /\ toPlugin'[k] = toPlugin[k + 1]
        /\ toPlugin' \in Seq(Request \cup {NoRequest})
    BY <1>0, <2>1, HeadAndTail
  <2>3. \A k \in 1..Len(toPlugin') : toPlugin'[k] # NoRequest => toPlugin'[k] # serving'
    <3> SUFFICES ASSUME NEW k \in 1..Len(toPlugin'), toPlugin'[k] # NoRequest,
                        toPlugin'[k] = serving'
                 PROVE  FALSE
      OBVIOUS
    <3>1. k + 1 \in 1..Len(toPlugin) /\ toPlugin[k + 1] = toPlugin[1] /\ k + 1 # 1
      BY <2>1, <2>2
    <3> QED
      BY <1>0, <2>1, <2>2, <3>1 DEF PipeIsFresh
  <2>4. \A k, l \in 1..Len(toPlugin') : toPlugin'[k] = toPlugin'[l] /\ k # l => toPlugin'[k] = NoRequest
    <3> SUFFICES ASSUME NEW k \in 1..Len(toPlugin'), NEW l \in 1..Len(toPlugin'),
                        toPlugin'[k] = toPlugin'[l], k # l
                 PROVE  toPlugin'[k] = NoRequest
      OBVIOUS
    <3>1. /\ k + 1 \in 1..Len(toPlugin) /\ l + 1 \in 1..Len(toPlugin) /\ k + 1 # l + 1
          /\ toPlugin[k + 1] = toPlugin[l + 1] /\ toPlugin'[k] = toPlugin[k + 1]
      BY <2>2
    <3> QED
      BY <1>0, <3>1 DEF PipeIsFresh
  <2>5. \A k \in 1..Len(toPlugin') : toPlugin'[k] # NoRequest =>
          execute'[toPlugin'[k]] = "idle" /\ toPlugin'[k] \notin applied'
    BY <1>0, <2>1, <2>2 DEF PipeIsFresh
  <2>6. serving' \notin applied'
    BY <1>0, <2>1, <2>2 DEF PipeIsFresh
  <2> QED
    BY <2>3, <2>4, <2>5, <2>6 DEF PipeIsFresh
<1>3. CASE LoopEnds \/ BeginStop
  BY <1>0, <1>3 DEF LoopEnds, BeginStop, adapterVars, PipeIsFresh
<1>4. CASE RejectEarly \/ ReplyInline \/ Respond
  <2>1. PICK a : Reply(a)
    BY <1>4, RepliesAreHonest
  <2>2. /\ loop' # "serving" /\ serving' \in {serving, NoRequest}
        /\ UNCHANGED <<toPlugin, execute, applied>>
    BY <2>1 DEF Reply
  <2> QED
    BY <1>0, <2>2 DEF PipeIsFresh
<1>5. CASE ServeInline
  <2>1. /\ loop' = "inline" /\ UNCHANGED <<toPlugin, execute, serving>>
        /\ applied' \subseteq applied \cup {serving}
    BY <1>5 DEF ServeInline
  <2> QED
    BY <1>0, <2>1 DEF PipeIsFresh
<1>6. CASE Submit
  <2>1. loop = "serving" /\ serving \in Request /\ UNCHANGED <<toPlugin, applied, serving>>
    BY <1>0, <1>6 DEF Submit, LoopHolds, adapterVars
  <2>2. execute'[serving] # "idle" /\ \A r \in Request : r # serving => execute'[r] = execute[r]
    BY <1>0, <1>6, <2>1 DEF Submit, ExecuteStopped, ExecuteBusy, ExecuteQueued, Enqueue, Return,
                WaitStep, WaitReady, WaitExpires, ClassifyExpiry, ExecutorTypeOK
  <2>3. \A k \in 1..Len(toPlugin) : toPlugin[k] # NoRequest => toPlugin[k] \in Request
    BY <1>0
  <2> QED
    BY <1>0, <2>1, <2>2, <2>3 DEF PipeIsFresh
<1>7. CASE RunHandler
  <2>1. UNCHANGED <<execute, loop, serving, toPlugin>>
    BY <1>7, WorkerKeepsCalls
  <2>2. applied' \subseteq applied \cup {work} /\ execute[work] # "idle"
    <3>1. worker = "started" /\ work # NoRequest
      BY <1>7 DEF RunHandler, RunOperation, BackendIInv, ExecutorInv, LineIsAdmitted
    <3> QED
      BY <1>7, <3>1, WorkWasSent DEF RunHandler
  <2> QED
    BY <1>0, <2>1, <2>2 DEF PipeIsFresh
<1>8. CASE ExecutorWorks \/ HandlerReturns \/ StopExecutor
  <2>1. UNCHANGED <<execute, loop, serving, toPlugin>>
    BY <1>8, WorkerKeepsCalls
  <2>2. UNCHANGED applied
    BY <1>8 DEF ExecutorWorks, HandlerReturns, StopExecutor, adapterVars
  <2> QED
    BY <1>0, <2>1, <2>2 DEF PipeIsFresh
<1>9. CASE Disconnect
  BY <1>0, <1>9 DEF Disconnect, PluginCloses, PipeIsFresh
<1>10. CASE UNCHANGED backendVars
  BY <1>0, <1>10 DEF backendVars, adapterVars, PipeIsFresh
<1> QED
  BY <1>1, <1>2, <1>3, <1>4, <1>5, <1>6, <1>7, <1>8, <1>9, <1>10 DEF BackendNext, IpcLoop

\* Nothing in the worker's hands waits in the queue as well.
LEMMA WorkLeftTheQueue ==
  ASSUME ExecutorTypeOK, ExecutorInv, work # NoRequest
  PROVE  ~Queued(work)
BY NotBeforeItself DEF ExecutorInv, LineInOrder, Queued

\* What a step does to the items: it completes the one in the worker's hands,
\* which then leaves the executor, it admits one that was never there, or it
\* only moves them along.
LEMMA ItemsMove ==
  ASSUME BackendIInv, [BackendNext]_backendVars, NEW r \in Request, InExecutor(r)'
  PROVE  /\ completion'[r] = completion[r]
         /\ \/ InExecutor(r)
            \/ execute[r] = "idle" /\ loop = "serving" /\ serving = r
<1> USE RequestAssumption
        DEF executorVars, gateVars, workVars, callVars, threadVars, historyVars
<1>0. ExecutorTypeOK /\ ExecutorInv /\ LoopHolds
  BY DEF BackendIInv, BackendInv
<1>1. CASE UNCHANGED <<queue, work, completion>>
  BY <1>1 DEF InExecutor, Queued
<1>2. CASE Submit
  <2>1. CASE ExecuteQueued(serving)
    <3>1. /\ queue' = Append(queue, serving) /\ UNCHANGED <<work, completion>>
          /\ execute[serving] = "idle" /\ loop = "serving" /\ serving \in Request
      BY <1>0, <1>2, <2>1 DEF ExecuteQueued, Enqueue, Submit, LoopHolds
    <3>2. \A i \in 1..Len(queue') : \/ i \in 1..Len(queue) /\ queue'[i] = queue[i]
                                    \/ i = Len(queue) + 1 /\ queue'[i] = serving
      BY <1>0, <3>1, AppendElements DEF ExecutorTypeOK
    <3> QED
      BY <3>1, <3>2 DEF InExecutor, Queued
  <2>2. CASE ~ExecuteQueued(serving)
    BY <1>1, <1>2, <2>2 DEF Submit, ExecuteStopped, ExecuteBusy, WaitStep, WaitReady, WaitExpires,
                            ClassifyExpiry
  <2> QED
    BY <2>1, <2>2
<1>3. CASE Pop
  <2>1. /\ queue # <<>> /\ work' = Head(queue) /\ queue' = Tail(queue) /\ UNCHANGED completion
    BY <1>3 DEF Pop
  <2>2. /\ Head(queue) = queue[1] /\ 1 \in 1..Len(queue)
        /\ \A i \in 1..Len(queue') : i + 1 \in 1..Len(queue) /\ queue'[i] = queue[i + 1]
    BY <1>0, <2>1, HeadAndTail DEF ExecutorTypeOK
  <2> QED
    BY <2>1, <2>2 DEF InExecutor, Queued
<1>4. ASSUME NEW v, completion' = [completion EXCEPT ![work] = v], UNCHANGED queue,
             work' = NoRequest, work # NoRequest
      PROVE  completion'[r] = completion[r] /\ InExecutor(r)
  <2>1. Queued(r)
    BY <1>4 DEF InExecutor, Queued
  <2>2. r # work
    BY <1>0, <1>4, <2>1, WorkLeftTheQueue
  <2> QED
    BY <1>0, <1>4, <2>1, <2>2 DEF InExecutor, ExecutorTypeOK
<1>5. CASE CheckCancelled \/ HandlerReturns
  <2>1. work # NoRequest
    BY <1>0, <1>5 DEF CheckCancelled, HandlerReturns, ExecutorInv, LineIsAdmitted
  <2> QED
    BY <1>1, <1>4, <1>5, <2>1 DEF CheckCancelled, Skip, Proceed, HandlerReturns, Publish
<1>6. CASE Exit \/ MarkStarted \/ RunHandler
  BY <1>1, <1>6 DEF Exit, MarkStarted, RunHandler, RunOperation
<1>7. CASE StopExecutor
  <2>1. CASE Drain
    BY <1>1, <2>1 DEF Drain
  <2>2. CASE Join
    BY <2>2 DEF Join, InExecutor, Queued
  <2> QED
    BY <1>7, <2>1, <2>2 DEF StopExecutor
<1>8. CASE UNCHANGED executorVars
  BY <1>1, <1>8
<1> QED
  BY <1>2, <1>3, <1>5, <1>6, <1>7, <1>8
     DEF BackendNext, IpcLoop, ExecutorWorks, WorkerStep, ReadRequest, LoopEnds, RejectEarly,
         ServeInline, ReplyInline, Respond, Reply, BeginStop, Disconnect, backendVars

\* What a step may perform: the request in the loop's own hands, which never
\* called Execute(), or the one in the worker's, which is not completed.
LEMMA AppliedGrows ==
  ASSUME BackendIInv, [BackendNext]_backendVars
  PROVE  /\ applied \subseteq applied'
         /\ \A r \in applied' \ applied :
              \/ serving = r /\ loop = "serving" /\ execute[r] = "idle" /\ UNCHANGED execute
              \/ work = r /\ RunHandler
<1> USE DEF pipeVars, ghostVars
<1>1. CASE UNCHANGED applied
  BY <1>1
<1>2. CASE ServeInline
  BY <1>2 DEF ServeInline, executorVars, callVars
<1>3. CASE RunHandler
  BY <1>3 DEF RunHandler
<1>4. CASE Sidecar
  BY <1>1, <1>4, SidecarWritesHolds DEF SidecarWrites, BackendIInv, IInv
<1>5. CASE Disconnect
  BY <1>1, <1>5 DEF Disconnect, PluginCloses
<1> QED
  BY <1>1, <1>2, <1>3, <1>4, <1>5
     DEF BackendNext, IpcLoop, ExecutorWorks, HandlerReturns, ReadRequest, LoopEnds, RejectEarly,
         ReplyInline, Submit, Respond, Reply, BeginStop, StopExecutor, backendVars, adapterVars

\* A request that was sent keeps its operation_id.
LEMMA SentKeepsOperation ==
  ASSUME BackendIInv, [BackendNext]_backendVars, NEW c \in Request, c \in sent
  PROVE  c \in sent' /\ op'[c] = op[c]
<1> USE DEF pipeVars, ghostVars, futureVars
<1>1. CASE UNCHANGED <<sent, op>>
  BY <1>1
<1>2. CASE Sidecar
  <2>1. call[c] # "idle"
    BY DEF BackendIInv, IInv, AdapterInv, SentIsPastWriting
  <2> QED
    BY <1>2, <2>1, SidecarWritesHolds DEF SidecarWrites, BackendIInv, IInv
<1> QED
  BY <1>1, <1>2
     DEF BackendNext, IpcLoop, ExecutorWorks, HandlerReturns, ReadRequest, LoopEnds, RejectEarly,
         ReplyInline, Submit, Respond, Reply, BeginStop, StopExecutor, backendVars, adapterVars,
         sidecarVars, ServeInline, RunHandler, Disconnect, PluginCloses

\* An item is completed by the worker that holds it: skipped with an empty
\* response, or with what its handler truthfully says.
LEMMA CompletionsMade ==
  ASSUME BackendIInv, [BackendNext]_backendVars, NEW r \in Request, completion'[r] # completion[r]
  PROVE  /\ work = r /\ UNCHANGED <<applied, op, execute>>
         /\ completion'[r] = "empty" \/ (completion'[r] \in Answer /\ Truthful(completion'[r], r))
<1> USE DEF executorVars, gateVars, workVars, callVars, threadVars, historyVars, adapterVars,
            futureVars, ghostVars
<1>0. ExecutorTypeOK
  BY DEF BackendIInv
<1>1. CASE HandlerReturns
  <2>1. PICK a \in Answer \cup {"empty"} : Truthful(a, work) /\ Publish(a)
    BY <1>1 DEF HandlerReturns
  <2>2. work = r /\ completion'[r] = a
    BY <1>0, <2>1 DEF Publish, ExecutorTypeOK
  <2> QED
    BY <1>1, <2>1, <2>2 DEF HandlerReturns, Publish
<1>2. CASE CheckCancelled /\ UNCHANGED adapterVars
  BY <1>0, <1>2 DEF CheckCancelled, Skip, Proceed, ExecutorTypeOK
<1> QED
  BY <1>1, <1>2
     DEF BackendNext, IpcLoop, ExecutorWorks, WorkerStep, Pop, Exit, MarkStarted, RunHandler,
         RunOperation, ReadRequest, LoopEnds, RejectEarly, ServeInline, ReplyInline, Respond, Reply,
         BeginStop, Disconnect, backendVars, StopExecutor, Drain, Join, Submit, ExecuteStopped,
         ExecuteBusy, ExecuteQueued, Enqueue, WaitStep, WaitReady, WaitExpires, ClassifyExpiry

\* The verdicts of Execute() change for the request that the loop serves only.
LEMMA VerdictsMade ==
  ASSUME BackendIInv, [BackendNext]_backendVars, NEW r \in Request
  PROVE  \/ execute'[r] = execute[r] /\ status'[r] = status[r]
         \/ /\ loop = "serving" /\ serving = r /\ UNCHANGED <<applied, completion>>
            /\ execute'[r] # "idle"
            /\ execute'[r] = "returned" => status'[r] # "none"
            /\ status'[r] = "completed" => status[r] = "completed" \/ completion[r] # "none"
<1> USE DEF executorVars, gateVars, workVars, callVars, threadVars, historyVars, adapterVars,
            futureVars, ghostVars
<1>0. ExecutorTypeOK
  BY DEF BackendIInv
<1>1. CASE Submit
  <2>1. loop = "serving" /\ UNCHANGED <<applied, completion>>
    BY <1>1 DEF Submit, ExecuteStopped, ExecuteBusy, ExecuteQueued, Enqueue, WaitStep, WaitReady,
                WaitExpires, ClassifyExpiry
  <2>2. CASE serving # r
    BY <1>0, <1>1, <2>2 DEF Submit, ExecuteStopped, ExecuteBusy, ExecuteQueued, Enqueue, WaitStep,
                WaitReady, WaitExpires, ClassifyExpiry, Return, ExecutorTypeOK
  <2>3. CASE serving = r
    BY <1>0, <1>1, <2>1, <2>3 DEF Submit, ExecuteStopped, ExecuteBusy, ExecuteQueued, Enqueue,
                WaitStep, WaitReady, WaitExpires, ClassifyExpiry, Return, ExecutorTypeOK
  <2> QED
    BY <2>2, <2>3
<1>2. CASE ExecutorWorks \/ RunHandler \/ HandlerReturns \/ StopExecutor
  BY <1>2, WorkerKeepsCalls
<1> QED
  BY <1>1, <1>2
     DEF BackendNext, IpcLoop, ReadRequest, LoopEnds, RejectEarly, ServeInline, ReplyInline,
         Respond, Reply, BeginStop, Disconnect, backendVars

\* Operations that have run stay run.
LEMMA RunsStay ==
  ASSUME BackendIInv, [BackendNext]_backendVars, NEW r \in Request, HasRun(r)
  PROVE  HasRun(r)'
<1> USE DEF executorVars, gateVars, workVars, callVars, threadVars, historyVars
<1>1. CASE UNCHANGED ran
  BY <1>1 DEF HasRun
<1>2. CASE RunHandler
  <2>1. ran \in Seq(Request) /\ work \in Request /\ ran' = Append(ran, work)
    BY <1>2 DEF BackendIInv, RunHandler, RunOperation, ExecutorInv, LineIsAdmitted, ExecutorTypeOK
  <2> QED
    BY <2>1 DEF HasRun
<1> QED
  BY <1>1, <1>2
     DEF BackendNext, IpcLoop, ExecutorWorks, WorkerStep, Pop, Exit, MarkStarted, CheckCancelled,
         Skip, Proceed, HandlerReturns, Publish, ReadRequest, LoopEnds, RejectEarly, ServeInline,
         ReplyInline, Respond, Reply, BeginStop, Disconnect, backendVars, StopExecutor, Drain, Join,
         Submit, ExecuteStopped, ExecuteBusy, ExecuteQueued, Enqueue, WaitStep, WaitReady,
         WaitExpires, ClassifyExpiry

\* Completed items have left the executor and say what happened.
LEMMA CompletionIsHonestStep ==
  ASSUME BackendIInv, [BackendNext]_backendVars
  PROVE  CompletionIsHonest'
<1> SUFFICES ASSUME NEW r \in Request
             PROVE  /\ completion'[r] # "none" => execute'[r] # "idle" /\ ~InExecutor(r)'
                    /\ completion'[r] = "ok" /\ Mutation(r)' => r \in applied'
                    /\ completion'[r] = "error" => r \notin applied' \/ r \in Hasty
                    /\ execute'[r] = "returned" => status'[r] # "none"
                    /\ status'[r] = "completed" => completion'[r] # "none"
                    /\ r \in applied' /\ execute'[r] # "idle" => HasRun(r)'
  BY DEF CompletionIsHonest
<1> USE RequestAssumption
<1>0. CompletionIsHonest /\ PipeIsFresh /\ LoopHolds /\ CallsWereSent
  BY DEF BackendIInv, BackendInv
<1>1. completion'[r] # completion[r] => execute[r] # "idle" /\ ~InExecutor(r)'
  BY CompletionsMade, ItemsMove, WorkWasSent
<1>2. completion'[r] # "none" => execute[r] # "idle"
  BY <1>0, <1>1 DEF CompletionIsHonest
<1>3. execute[r] # "idle" => execute'[r] # "idle"
  BY VerdictsMade
<1>4. completion'[r] # "none" => ~InExecutor(r)'
  BY <1>0, <1>1, <1>2, ItemsMove DEF CompletionIsHonest
<1>5. completion'[r] = "ok" /\ Mutation(r)' => r \in applied'
  <2>1. completion'[r] # "none" => op'[r] = op[r]
    BY <1>0, <1>2, SentKeepsOperation DEF CallsWereSent
  <2>2. CASE completion'[r] = completion[r]
    BY <1>0, <2>1, <2>2, AppliedGrows DEF CompletionIsHonest, Mutation
  <2>3. CASE completion'[r] # completion[r]
    BY <2>1, <2>3, CompletionsMade DEF Truthful, Mutation
  <2> QED
    BY <2>2, <2>3
<1>6. completion'[r] = "error" => r \notin applied' \/ r \in Hasty
  <2>1. CASE completion'[r] = completion[r]
    <3>1. completion[r] = "error" =>
            execute[r] # "idle" /\ work # r /\ (r \notin applied \/ r \in Hasty)
      BY <1>0 DEF CompletionIsHonest, InExecutor
    <3> QED
      BY <2>1, <3>1, AppliedGrows
  <2>2. CASE completion'[r] # completion[r]
    BY <2>2, CompletionsMade DEF Truthful
  <2> QED
    BY <2>1, <2>2
<1>7. execute'[r] = "returned" => status'[r] # "none"
  BY <1>0, VerdictsMade DEF CompletionIsHonest
<1>8. status'[r] = "completed" => completion'[r] # "none"
  <2>1. status'[r] = "completed" => completion[r] # "none"
    BY <1>0, VerdictsMade DEF CompletionIsHonest
  <2>2. completion[r] # "none" => completion'[r] # "none"
    BY CompletionsMade DEF Answer
  <2> QED
    BY <2>1, <2>2
<1>9. r \in applied' /\ execute'[r] # "idle" => HasRun(r)'
  <2>1. CASE r \in applied' /\ r \notin applied
    <3>1. CASE serving = r /\ loop = "serving" /\ execute[r] = "idle" /\ UNCHANGED execute
      BY <3>1
    <3>2. CASE work = r /\ RunHandler
      <4>1. ran \in Seq(Request) /\ ran' = Append(ran, r)
        BY <3>2 DEF BackendIInv, RunHandler, RunOperation, ExecutorTypeOK
      <4> QED
        BY <4>1 DEF HasRun
    <3> QED
      BY <2>1, <3>1, <3>2, AppliedGrows
  <2>2. CASE r \in applied /\ execute[r] # "idle"
    BY <1>0, <2>2, RunsStay DEF CompletionIsHonest
  <2>3. CASE r \in applied /\ execute[r] = "idle"
    BY <1>0, <2>3, VerdictsMade DEF PipeIsFresh
  <2> QED
    BY <2>1, <2>2, <2>3
<1> QED
  BY <1>2, <1>3, <1>4, <1>5, <1>6, <1>7, <1>8, <1>9

-----------------------------------------------------------------------------
(* Definite errors.                                                        *)

\* A request that is gone stays gone.
LEMMA GoneStep ==
  ASSUME BackendIInv, [BackendNext]_backendVars, NEW c \in Request, Gone(c)
  PROVE  Gone(c)'
<1> USE RequestAssumption
        DEF loopVars, pipeVars, ghostVars
<1>0. toPlugin \in Seq(Request \cup {NoRequest}) /\ AdapterTypeOK
  BY DEF BackendIInv, IInv, AdapterTypeOK, PipeTypeOK
<1>1. c \in sent'
  BY SentKeepsOperation DEF Gone
<1>2. ASSUME Sidecar, UNCHANGED loopVars
      PROVE  Gone(c)'
  <2>1. CASE UNCHANGED toPlugin
    BY <1>1, <1>2, <2>1 DEF Gone
  <2>2. ASSUME NEW x \in Request \cup {NoRequest}, toPlugin' = Append(toPlugin, x),
               x = NoRequest \/ call[x] = "writing"
        PROVE  Gone(c)'
    <3>1. x # c
      BY <2>2, WrittenIsNew DEF Gone
    <3>2. \A k \in 1..Len(toPlugin') : \/ k \in 1..Len(toPlugin) /\ toPlugin'[k] = toPlugin[k]
                                       \/ k = Len(toPlugin) + 1 /\ toPlugin'[k] = x
      BY <1>0, <2>2, AppendElements
    <3> QED
      BY <1>1, <1>2, <3>1, <3>2 DEF Gone
  <2> QED
    BY <1>0, <1>2, <2>1, <2>2, SidecarWritesHolds DEF SidecarWrites
<1>3. CASE ReadRequest
  <2>1. toPlugin # <<>> /\ serving' = Head(toPlugin) /\ toPlugin' = Tail(toPlugin)
    BY <1>3 DEF ReadRequest
  <2>2. /\ Head(toPlugin) = toPlugin[1] /\ 1 \in 1..Len(toPlugin)
        /\ \A k \in 1..Len(toPlugin') : k + 1 \in 1..Len(toPlugin) /\ toPlugin'[k] = toPlugin[k + 1]
    BY <1>0, <2>1, HeadAndTail
  <2> QED
    BY <1>1, <2>1, <2>2 DEF Gone
<1>4. CASE Disconnect
  BY <1>1, <1>4 DEF Disconnect, PluginCloses, Gone
<1>5. CASE ExecutorWorks \/ RunHandler \/ HandlerReturns \/ StopExecutor
  BY <1>1, <1>5, WorkerKeepsCalls DEF Gone
<1> QED
  BY <1>1, <1>2, <1>3, <1>4, <1>5
     DEF Gone, BackendNext, IpcLoop, LoopEnds, RejectEarly, ServeInline, ReplyInline, Submit,
         Respond, Reply, BeginStop, backendVars, adapterVars

\* ... and a definite error that may be told of it may be told for ever: neither
\* the loop nor the worker has it any more.
LEMMA SafeErrorStep ==
  ASSUME BackendIInv, [BackendNext]_backendVars, NEW c \in Request, Gone(c), ErrorIsSafe(c)
  PROVE  Gone(c)' /\ ErrorIsSafe(c)'
<1>1. Gone(c)'
  BY GoneStep
<1>2. op'[c] = op[c]
  BY SentKeepsOperation DEF Gone
<1>3. status'[c] = status[c]
  BY VerdictsMade DEF Gone
<1>4. c \notin applied /\ ~InExecutor(c) => c \notin applied' /\ ~InExecutor(c)'
  BY ItemsMove, AppliedGrows DEF Gone, InExecutor
<1> QED
  BY <1>1, <1>2, <1>3, <1>4 DEF ErrorIsSafe, Mutation

\* Errors on their way, told and recorded stay honest.
LEMMA ErrorsAreHonestStep ==
  ASSUME BackendIInv, [BackendNext]_backendVars
  PROVE  ErrorsAreHonest'
<1> SUFFICES ASSUME NEW c \in Request
             PROVE  /\ \A k \in 1..Len(toSidecar') :
                         toSidecar'[k].id = c /\ toSidecar'[k].answer = "error" =>
                           Gone(c)' /\ ErrorIsSafe(c)'
                    /\ result'[c] = "error" =>
                         (c \notin sent' /\ call'[c] = "returned") \/ (Gone(c)' /\ ErrorIsSafe(c)')
                    /\ \A i \in DOMAIN entries' :
                         owner'[i] = c /\ entries'[i].value = "error" => Gone(c)' /\ ErrorIsSafe(c)'
  BY DEF ErrorsAreHonest
<1> DEFINE Safe == Gone(c) /\ ErrorIsSafe(c)
           SafeNext == Gone(c)' /\ ErrorIsSafe(c)'
<1> USE RequestAssumption
        DEF loopVars, pipeVars, ghostVars, futureVars, ledgerVars
<1>0. ErrorsAreHonest /\ AdapterTypeOK /\ IInv /\ PipeIsFresh /\ LoopHolds
  BY DEF BackendIInv, BackendInv, IInv
<1>s. Safe => SafeNext
  BY SafeErrorStep
<1>1. CASE UNCHANGED <<toSidecar, result, sent, call, entries, owner>>
  BY <1>0, <1>1, <1>s DEF ErrorsAreHonest
<1>2. CASE Sidecar
  <2>1. SidecarWrites /\ FramesStay /\ ErrorsLearnt /\ ErrorsRecorded
    BY <1>0, <1>2, SidecarWritesHolds, FramesStayHolds, ErrorsLearntHolds, ErrorsRecordedHolds
  <2>2. ASSUME NEW k \in 1..Len(toSidecar'), toSidecar'[k].id = c, toSidecar'[k].answer = "error"
        PROVE  SafeNext
    BY <1>0, <1>s, <2>1, <2>2 DEF FramesStay, ErrorsAreHonest
  <2>3. ASSUME result'[c] = "error"
        PROVE  (c \notin sent' /\ call'[c] = "returned") \/ SafeNext
    <3>1. CASE Safe
      BY <1>s, <3>1
    <3>2. CASE c \notin sent /\ call[c] = "returned"
      BY <2>1, <3>2 DEF SidecarWrites
    <3>3. CASE call[c] = "idle" /\ call'[c] = "returned" /\ sent' = sent
      BY <1>0, <3>3 DEF IInv, AdapterInv, SentIsPastWriting
    <3> QED
      BY <1>0, <2>1, <2>3, <3>1, <3>2, <3>3 DEF ErrorsLearnt, ErrorsAreHonest
  <2>4. ASSUME NEW i \in DOMAIN entries', owner'[i] = c, entries'[i].value = "error"
        PROVE  SafeNext
    <3>1. /\ i \in DOMAIN entries /\ owner[i] = c
          /\ entries[i].value = "error" \/ (result[c] = "error" /\ call[c] = "answered")
      BY <2>1, <2>4 DEF ErrorsRecorded
    <3> QED
      BY <1>0, <1>s, <3>1 DEF ErrorsAreHonest
  <2> QED
    BY <2>2, <2>3, <2>4
<1>3. CASE RejectEarly \/ ReplyInline \/ Respond
  <2>1. PICK a : Reply(a) /\ Honest(a)
    BY <1>3, RepliesAreHonest
  <2>2. CASE UNCHANGED toSidecar
    BY <1>1, <2>1, <2>2 DEF Reply, sidecarVars
  <2>3. CASE pipeOpen /\ toSidecar' = Append(toSidecar, [id |-> serving, answer |-> a])
             /\ serving' = NoRequest /\ a # "empty"
    <3> DEFINE frame == [id |-> serving, answer |-> a]
    <3>1. frame.id = serving /\ frame.answer = a /\ frame \in Frame /\ serving \in Request
      BY <2>1, <2>3 DEF Honest, Frame
    <3>2. UNCHANGED <<result, sent, call, entries, owner, toPlugin, applied, op>>
      BY <2>1 DEF Reply, sidecarVars
    <3>3. serving = c /\ a = "error" => SafeNext
      <4>1. serving = c => Gone(c)'
        BY <1>0, <2>3, <3>1, <3>2 DEF Gone, PipeIsFresh, LoopHolds
      <4>2. UNCHANGED <<status, queue, work>>
        BY <2>1 DEF Reply, executorVars, callVars, threadVars
      <4>3. serving = c /\ a = "error" => ErrorIsSafe(c)
        BY <2>1 DEF Honest
      <4> QED
        BY <3>2, <4>1, <4>2, <4>3 DEF ErrorIsSafe, InExecutor, Queued, Mutation
    <3>4. toSidecar' = Append(toSidecar, frame)
      BY <2>3
    <3> HIDE DEF frame
    <3>5. \A k \in 1..Len(toSidecar') : \/ k \in 1..Len(toSidecar) /\ toSidecar'[k] = toSidecar[k]
                                        \/ k = Len(toSidecar) + 1 /\ toSidecar'[k] = frame
      BY <1>0, <3>1, <3>4, AppendElements DEF AdapterTypeOK, PipeTypeOK
    <3>6. ASSUME NEW k \in 1..Len(toSidecar'), toSidecar'[k].id = c, toSidecar'[k].answer = "error"
          PROVE  SafeNext
      BY <1>0, <1>s, <3>1, <3>3, <3>5, <3>6 DEF ErrorsAreHonest
    <3> QED
      BY <1>0, <1>s, <3>2, <3>6 DEF ErrorsAreHonest
  <2> QED
    BY <2>1, <2>2, <2>3 DEF Reply
<1>4. CASE Disconnect
  <2>1. toSidecar' = <<>> /\ UNCHANGED <<result, sent, call, entries, owner>>
    BY <1>4 DEF Disconnect, PluginCloses
  <2> QED
    BY <1>0, <1>s, <2>1 DEF ErrorsAreHonest
<1>5. CASE ExecutorWorks \/ RunHandler \/ HandlerReturns \/ StopExecutor
  BY <1>1, <1>5, WorkerKeepsCalls
<1> QED
  BY <1>1, <1>2, <1>3, <1>4, <1>5
     DEF BackendNext, IpcLoop, ReadRequest, LoopEnds, ServeInline, Submit, BeginStop, backendVars,
         adapterVars, sidecarVars

-----------------------------------------------------------------------------
(* The invariant and what follows from it.                                 *)

\* The composition starts in its inductive invariant.
LEMMA BackendIInvInit == BackendInit => BackendIInv
<1> SUFFICES ASSUME BackendInit PROVE BackendIInv
  OBVIOUS
<1>1. IInv
  BY IInvInit DEF BackendInit
<1>2. ExecutorTypeOK
  <2>1. <<>> \in Seq(Request) /\ Len(<<>>) <= Capacity
    BY ExecutorAssumption
  <2> QED
    BY <2>1 DEF BackendInit, ExecutorTypeOK
<1>3. ExecutorInv
  BY DEF BackendInit, ExecutorInv, AdmittedOnce, LineIsAdmitted, LineInOrder,
         StartedIsHonest, StopCancelsQueue, Holding
<1>4. LoopTypeOK /\ LoopHolds /\ LoopOwnsCalls /\ CallsWereSent
  BY RequestAssumption
     DEF BackendInit, LoopTypeOK, LoopHolds, LoopOwnsCalls, CallsWereSent
<1>5. PipeIsFresh /\ CompletionIsHonest
  BY DEF BackendInit, AdapterInit, PipeIsFresh, CompletionIsHonest
<1>6. ErrorsAreHonest
  BY DEF BackendInit, AdapterInit, LedgerInit, ErrorsAreHonest
<1> QED
  BY <1>1, <1>2, <1>3, <1>4, <1>5, <1>6 DEF BackendIInv, BackendInv

\* Every step of the composition keeps it.
LEMMA BackendIInvStep ==
  ASSUME BackendIInv, [BackendNext]_backendVars
  PROVE  BackendIInv'
<1>1. IInv'
  BY AdapterPart
<1>2. ExecutorTypeOK' /\ ExecutorInv'
  BY ExecutorProjection, ExecutorInvStep DEF BackendIInv, BackendInv
<1>3. BackendInv'
  BY LoopStep, PipeIsFreshStep, CompletionIsHonestStep, ErrorsAreHonestStep DEF BackendInv
<1> QED
  BY <1>1, <1>2, <1>3 DEF BackendIInv

\* The inductive invariant of the composition holds throughout.
LEMMA BackendIInvAlways == BackendSafety => []BackendIInv
<1>1. BackendIInv /\ [BackendNext]_backendVars => BackendIInv'
  BY BackendIInvStep
<1> QED
  BY <1>1, BackendIInvInit, PTL DEF BackendSafety

\* The composed state is well typed: a request in the loop's hands, a bounded
\* executor queue, answers and frames of the right kind.
THEOREM BackendTypeCorrect == BackendSafety => []BackendTypeOK
<1>1. BackendIInv => BackendTypeOK
  BY DEF BackendIInv, IInv, BackendInv, LoopTypeOK, BackendTypeOK
<1> QED
  BY <1>1, BackendIInvAlways, PTL

\* End to end, with the real loop and executor on the other side of the pipe: a
\* mutation is performed at most once while the ledger remembers it, "ok" is
\* said of what was performed, and no entry is lost.
THEOREM MutationsAreSafeEndToEnd ==
  BackendSafety => [](AtMostOnce /\ OkIsTruthful /\ NoLostEntry)
<1>1. BackendIInv => AtMostOnce /\ OkIsTruthful /\ NoLostEntry
  BY InvImpliesAtMostOnce DEF BackendIInv, IInv
<1> QED
  BY <1>1, BackendIInvAlways, PTL

\* A definite error means that the mutation was not performed, unless its handler
\* is one of those that act before they judge, or its deadline passed in the
\* window between the worker's load of `cancelled' and its store of `started'.
THEOREM DefiniteErrorIsHonestHolds == BackendSafety => []DefiniteErrorIsHonest
<1>1. BackendIInv => DefiniteErrorIsHonest
  <2> SUFFICES ASSUME BackendIInv, NEW c \in applied \ Hasty,
                      \/ result[c] = "error"
                      \/ \E i \in DOMAIN entries : owner[i] = c /\ entries[i].value = "error"
               PROVE  status[c] = "timedOutQueued"
    BY DEF DefiniteErrorIsHonest
  <2>1. c \in sent /\ Mutation(c)
    BY DEF BackendIInv, IInv, AdapterInv, AppliedWasSent
  <2>2. c \in Request
    BY DEF BackendIInv, IInv, AdapterTypeOK, HistoryTypeOK
  <2> QED
    BY <2>1, <2>2 DEF BackendIInv, BackendInv, ErrorsAreHonest, ErrorIsSafe
<1> QED
  BY <1>1, BackendIInvAlways, PTL

\* Runtime::Stop stops the executor only after the loop has ended: no request is
\* waiting in Execute() when its work is taken away.
THEOREM StopFindsLoopGoneHolds == BackendSafety => StopFindsLoopGone
<1> DEFINE Quiet == stopping' => \A r \in Request : execute[r] \notin {"waiting", "cancelling"}
<1>1. BackendIInv /\ [BackendNext]_backendVars => [Quiet]_backendVars
  <2> SUFFICES ASSUME BackendIInv, BackendNext, stopping', NEW r \in Request
               PROVE  execute[r] \notin {"waiting", "cancelling"}
    OBVIOUS
  <2>1. LoopOwnsCalls /\ LoopOwnsCalls' /\ CallsWereSent'
    BY LoopStep DEF BackendIInv, BackendInv
  <2>2. loop' = "ended"
    BY <2>1 DEF LoopOwnsCalls
  <2>3. CASE execute'[r] = execute[r]
    BY <2>1, <2>2, <2>3 DEF LoopOwnsCalls
  <2>4. CASE execute'[r] # execute[r]
    <3>1. Submit
      BY <2>4, WorkerKeepsCalls
         DEF BackendNext, IpcLoop, ReadRequest, LoopEnds, RejectEarly, ServeInline, ReplyInline,
             Respond, Reply, BeginStop, Disconnect, executorVars, callVars
    <3> QED
      BY <2>2, <3>1 DEF Submit, loopVars
  <2> QED
    BY <2>3, <2>4
<1> QED
  BY <1>1, BackendIInvAlways, PTL DEF BackendSafety, StopFindsLoopGone

\* A recorded outcome is never overwritten, with the real plugin answering.
THEOREM VerdictsAreFinalEndToEnd == BackendSafety => VerdictFinal
<1> DEFINE Final == \A i \in DOMAIN entries \cap DOMAIN entries' : VerdictKept(i)
<1>1. BackendIInv /\ [BackendNext]_backendVars => [Final]_adapterVars
  <2> SUFFICES ASSUME BackendIInv, [BackendNext]_backendVars
               PROVE  Final
    OBVIOUS
  <2>1. CASE UNCHANGED <<entries, owner>>
    BY <2>1 DEF VerdictKept
  <2>2. CASE Sidecar
    BY <2>2, VerdictKeptByStep DEF AdapterNext, BackendIInv
  <2> QED
    BY <2>1, <2>2, WorkerKeepsCalls
       DEF BackendNext, IpcLoop, ReadRequest, LoopEnds, RejectEarly, ServeInline, ReplyInline,
           Submit, Respond, Reply, BeginStop, Disconnect, PluginCloses, adapterVars, backendVars,
           sidecarVars, ledgerVars, ghostVars
<1> QED
  BY <1>1, BackendIInvAlways, PTL DEF BackendSafety, VerdictFinal, VerdictKept

-----------------------------------------------------------------------------
(* The refinement: the loop and the executor are the plugin IpcAdapter     *)
(* assumes, when the request in the loop's hands still counts as waiting.  *)

\* What happens to the mapped pipe when the real one is untouched or grows.
LEMMA UnansweredFollows ==
  ASSUME AdapterTypeOK, LoopTypeOK, UNCHANGED <<serving, pipeOpen>>
  PROVE  /\ UNCHANGED toPlugin => UNCHANGED Unanswered
         /\ \A x \in Request \cup {NoRequest} :
              toPlugin' = Append(toPlugin, x) => Unanswered' = Append(Unanswered, x)
<1>1. UNCHANGED toPlugin => UNCHANGED Unanswered
  BY DEF Unanswered
<1>2. ASSUME NEW x \in Request \cup {NoRequest}, toPlugin' = Append(toPlugin, x)
      PROVE  Unanswered' = Append(Unanswered, x)
  <2>1. toPlugin \in Seq(Request \cup {NoRequest}) /\ serving \in Request \cup {NoRequest}
    BY DEF AdapterTypeOK, PipeTypeOK, LoopTypeOK
  <2>2. <<serving>> \o Append(toPlugin, x) = Append(<<serving>> \o toPlugin, x)
    BY <2>1
  <2> QED
    BY <1>2, <2>2 DEF Unanswered
<1> QED
  BY <1>1, <1>2

\* The ledger is the same on both levels.
LEMMA PeerLedger ==
  ASSUME NEW id, NEW f, NEW v
  PROVE  /\ Peer!Begin(id, f) <=> Begin(id, f)
         /\ Peer!Admission(id, f) = Admission(id, f)
         /\ Peer!Evicted = Evicted
         /\ Peer!AbandonUnstarted(id, f) <=> AbandonUnstarted(id, f)
         /\ Peer!Removable(id, f) <=> Removable(id, f)
         /\ Peer!Complete(id, v) <=> Complete(id, v)
         /\ Peer!MarkUnknown(id) <=> MarkUnknown(id)
         /\ Peer!Tick <=> Tick
<1>1. Peer!Retained = Retained /\ Peer!Admitted(f) = Admitted(f) /\ Peer!NoValue = NoValue
  BY DEF Peer!Retained, Retained, Peer!Admitted, Admitted, Peer!NoValue, NoValue
<1>c. Peer!Cardinality(Retained) = Cardinality(Retained)
  BY Zenon DEF Peer!Cardinality, Cardinality
<1>2. Peer!Admission(id, f) = Admission(id, f) /\ Peer!Evicted = Evicted
  BY <1>1, <1>c DEF Peer!Admission, Admission, Peer!Evicted, Evicted
<1>3. Peer!Begin(id, f) <=> Begin(id, f)
  BY <1>1, <1>2, Zenon DEF Peer!Begin, Begin
<1>4. Peer!Removable(id, f) <=> Removable(id, f)
  BY DEF Peer!Removable, Removable
<1>5. Peer!AbandonUnstarted(id, f) <=> AbandonUnstarted(id, f)
  BY <1>4 DEF Peer!AbandonUnstarted, AbandonUnstarted
<1>6. Peer!Complete(id, v) <=> Complete(id, v)
  BY DEF Peer!Complete, Complete, Peer!SetStatus, SetStatus
<1>7. Peer!MarkUnknown(id) <=> MarkUnknown(id)
  BY <1>1 DEF Peer!MarkUnknown, MarkUnknown, Peer!SetStatus, SetStatus
<1>8. Peer!Tick <=> Tick
  BY DEF Peer!Tick, Tick
<1> QED
  BY <1>2, <1>3, <1>4, <1>5, <1>6, <1>7, <1>8

\* A step of the sidecar is the same step of the mapped adapter.
LEMMA PeerSidecar ==
  ASSUME AdapterTypeOK, LoopTypeOK, Sidecar, UNCHANGED loopVars
  PROVE  Peer!Sidecar
<1> USE DEF ledgerVars, futureVars, pipeVars, ghostVars, Goto, Learn, Peer!ledgerVars,
            Peer!futureVars, Peer!pipeVars, Peer!ghostVars, Peer!Goto, Peer!Learn, Mutation,
            Peer!Mutation
<1>0. /\ UNCHANGED <<serving, pipeOpen>>
      /\ UNCHANGED toPlugin => UNCHANGED Unanswered
      /\ \A x \in Request \cup {NoRequest} :
           toPlugin' = Append(toPlugin, x) => Unanswered' = Append(Unanswered, x)
  BY SidecarWritesHolds, UnansweredFollows DEF SidecarWrites, loopVars
<1>1. ASSUME NEW c \in Request, CallRead(c) \/ PassReadyCheck(c) \/ AcquireStream(c)
      PROVE  Peer!CallRead(c) \/ Peer!PassReadyCheck(c) \/ Peer!AcquireStream(c)
  BY <1>0, <1>1 DEF CallRead, Peer!CallRead, PassReadyCheck, Peer!PassReadyCheck, AcquireStream,
                    Peer!AcquireStream
<1>2. ASSUME NEW c \in Request, NEW id \in OperationId, NEW f \in Fingerprint,
             CallMutation(c, id, f)
      PROVE  Peer!CallMutation(c, id, f)
  <2>1. Peer!Refusal(Admission(id, f), id) = Refusal(Admission(id, f), id)
    BY DEF Peer!Refusal, Refusal
  <2>2. Peer!MayStart(Admission(id, f)) <=> MayStart(Admission(id, f))
    BY DEF Peer!MayStart, MayStart
  <2>3. Peer!Admission(id, f) = Admission(id, f) /\ Peer!Evicted = Evicted
    BY PeerLedger
  <2>4. Peer!Begin(id, f)
    BY <1>2, PeerLedger DEF CallMutation
  <2> QED
    BY <1>0, <1>2, <2>1, <2>2, <2>3, <2>4 DEF CallMutation, Peer!CallMutation
<1>3. ASSUME NEW c \in Request, FailReadyCheck(c)
      PROVE  Peer!FailReadyCheck(c)
  <2>1. /\ Peer!AbandonUnstarted(op[c], fp[c]) <=> AbandonUnstarted(op[c], fp[c])
        /\ Peer!Removable(op[c], fp[c]) <=> Removable(op[c], fp[c])
    BY PeerLedger
  <2> QED
    BY <1>0, <1>3, <2>1 DEF FailReadyCheck, Peer!FailReadyCheck
<1>4. ASSUME NEW c \in Request, WriteRequest(c)
      PROVE  Peer!WriteRequest(c)
  BY <1>0, <1>4 DEF WriteRequest, Peer!WriteRequest
<1>5. ASSUME NEW c \in Request, ReadOwn(c) \/ ReadForeign(c) \/ ExchangeError(c)
      PROVE  Peer!ReadOwn(c) \/ Peer!ReadForeign(c) \/ Peer!ExchangeError(c)
  BY <1>0, <1>5 DEF ReadOwn, Peer!ReadOwn, ReadForeign, Peer!ReadForeign, ExchangeError,
                    Peer!ExchangeError, Arrived, Peer!Arrived, OwnFrame, Peer!OwnFrame, Release,
                    Peer!Release
<1>6. ASSUME NEW c \in Request, DrainStale(c)
      PROVE  Peer!DrainStale(c)
  <2>1. \A i : Peer!RemoveAt(abandoned, i) = RemoveAt(abandoned, i)
    BY DEF Peer!RemoveAt, RemoveAt
  <2> QED
    BY <1>0, <1>6, <2>1 DEF DrainStale, Peer!DrainStale, Arrived, Peer!Arrived, OwnFrame,
                            Peer!OwnFrame
<1>7. ASSUME NEW c \in Request, Timeout(c) \/ Cancel(c)
      PROVE  Peer!Timeout(c) \/ Peer!Cancel(c)
  <2>1. Tear(c) => Peer!Tear(c)
    BY <1>0 DEF Tear, Peer!Tear, Arrived, Peer!Arrived, Torn, Peer!Torn
  <2> QED
    BY <1>0, <1>7, <2>1 DEF Timeout, Peer!Timeout, Cancel, Peer!Cancel, Suspended, Peer!Suspended,
                            Release, Peer!Release
<1>8. ASSUME NEW c \in Request, Settle(c) \/ Fail(c)
      PROVE  Peer!Settle(c) \/ Peer!Fail(c)
  <2>1. /\ Peer!Complete(op[c], result[c]) <=> Complete(op[c], result[c])
        /\ Peer!MarkUnknown(op[c]) <=> MarkUnknown(op[c])
    BY PeerLedger
  <2> QED
    BY <1>0, <1>8, <2>1 DEF Settle, Peer!Settle, Fail, Peer!Fail
<1>9. ASSUME NEW c \in Request, Remember(c)
      PROVE  Peer!Remember(c)
  BY <1>0, <1>9 DEF Remember, Peer!Remember
<1>10. CASE LedgerTick
  BY <1>0, <1>10, PeerLedger DEF LedgerTick, Peer!LedgerTick, Peer!Sidecar
<1> QED
  BY <1>1, <1>2, <1>3, <1>4, <1>5, <1>6, <1>7, <1>8, <1>9, <1>10
     DEF Sidecar, Client, Progress, Peer!Sidecar, Peer!Client, Peer!Progress

\* Reading a request moves it from the pipe to the loop's hands: for the
\* adapter nothing happens.
LEMMA ReadingIsInvisible ==
  ASSUME AdapterTypeOK, LoopHolds, ReadRequest
  PROVE  UNCHANGED Unanswered
<1>1. toPlugin \in Seq(Request \cup {NoRequest}) /\ toPlugin # <<>>
  BY DEF ReadRequest, AdapterTypeOK, PipeTypeOK
<1>2. <<Head(toPlugin)>> \o Tail(toPlugin) = toPlugin
  <2> DEFINE h == Head(toPlugin)
             t == Tail(toPlugin)
  <2>1. /\ h \in Request \cup {NoRequest} /\ t \in Seq(Request \cup {NoRequest})
        /\ Len(t) = Len(toPlugin) - 1 /\ h = toPlugin[1]
        /\ \A i \in 1..Len(t) : t[i] = toPlugin[i + 1]
    BY <1>1, HeadAndTail
  <2> HIDE DEF h, t
  <2>2. /\ <<h>> \o t \in Seq(Request \cup {NoRequest}) /\ Len(<<h>> \o t) = Len(toPlugin)
        /\ \A i \in 1..Len(toPlugin) : (<<h>> \o t)[i] = toPlugin[i]
    BY <1>1, <2>1
  <2>3. /\ toPlugin = [i \in 1..Len(toPlugin) |-> toPlugin[i]]
        /\ <<h>> \o t = [i \in 1..Len(<<h>> \o t) |-> (<<h>> \o t)[i]]
    BY <1>1, <2>2
  <2>4. <<h>> \o t = toPlugin
    BY <2>2, <2>3, Zenon
  <2> QED
    BY <2>4 DEF h, t
<1>3. serving = NoRequest /\ pipeOpen /\ pipeOpen' = pipeOpen
  BY DEF ReadRequest, LoopHolds
<1>4. serving' = Head(toPlugin) /\ Head(toPlugin) # NoRequest /\ toPlugin' = Tail(toPlugin)
  BY DEF ReadRequest
<1> QED
  BY <1>2, <1>3, <1>4 DEF Unanswered

\* A reply answers the oldest unanswered request; one that cannot be written
\* leaves it unanswered.
LEMMA ReplyIsPluginAnswer ==
  ASSUME BackendIInv, NEW a, Reply(a), Honest(a)
  PROVE  Peer!Plugin \/ UNCHANGED Peer!adapterVars
<1> USE DEF sidecarVars, ledgerVars, futureVars, pipeVars, ghostVars, Peer!ledgerVars,
            Peer!futureVars, Peer!pipeVars, Peer!ghostVars, Mutation, Peer!Mutation
<1>0. serving \in Request /\ serving # NoRequest /\ toPlugin \in Seq(Request \cup {NoRequest})
  BY RequestAssumption DEF Honest, BackendIInv, IInv, AdapterTypeOK, PipeTypeOK
<1>1. CASE pipeOpen /\ a # "empty"
  <2>1. Unanswered = <<serving>> \o toPlugin
    BY <1>0, <1>1 DEF Unanswered
  <2>2. Unanswered # <<>> /\ Head(Unanswered) = serving /\ Tail(Unanswered) = toPlugin
    <3>1. <<serving>> \o toPlugin # <<>> /\ Head(<<serving>> \o toPlugin) = serving
      BY <1>0
    <3>2. Tail(<<serving>> \o toPlugin) = toPlugin
      BY <1>0
    <3> QED
      BY <2>1, <3>1, <3>2
  <2>3. /\ toSidecar' = Append(toSidecar, [id |-> serving, answer |-> a]) /\ serving' = NoRequest
        /\ UNCHANGED <<sidecarVars, toPlugin, pipeOpen, ghostVars>>
    BY <1>1 DEF Reply
  <2>4. Unanswered' = toPlugin
    BY <2>3 DEF Unanswered
  <2>5. a \in Answer /\ (a = "ok" /\ Mutation(serving) => serving \in applied)
    BY <1>1 DEF Honest
  <2>6. Peer!PluginAnswers(a)
    BY <1>0, <1>1, <2>2, <2>3, <2>4, <2>5 DEF Peer!PluginAnswers
  <2> QED
    BY <2>5, <2>6 DEF Peer!Plugin, Peer!Answer, Answer
<1>2. CASE ~pipeOpen \/ a = "empty"
  BY <1>2 DEF Reply, Peer!adapterVars, Unanswered
<1> QED
  BY <1>1, <1>2

\* Performing a mutation that was sent is the mapped plugin's step, or none.
LEMMA ApplyingIsPeerStep ==
  ASSUME NEW c \in Request, c \in sent, Mutation(c), applied' = applied \cup {c},
         UNCHANGED <<sidecarVars, pipeVars, sent, owner, expired, serving>>
  PROVE  Peer!Plugin \/ UNCHANGED Peer!adapterVars
<1> USE DEF sidecarVars, ledgerVars, futureVars, pipeVars, ghostVars, Peer!ledgerVars,
            Peer!futureVars, Peer!pipeVars, Peer!ghostVars, Peer!adapterVars, Mutation,
            Peer!Mutation
<1>1. UNCHANGED Unanswered
  BY DEF Unanswered
<1>2. CASE c \in applied
  BY <1>1, <1>2
<1>3. CASE c \notin applied
  BY <1>1, <1>3 DEF Peer!Plugin, Peer!PluginApplies
<1> QED
  BY <1>2, <1>3

\* Every step of the composition is a step of the mapped adapter or invisible.
LEMMA PeerStep ==
  ASSUME BackendIInv, [BackendNext]_backendVars
  PROVE  [Peer!AdapterNext]_(Peer!adapterVars)
<1> USE DEF sidecarVars, ledgerVars, futureVars, pipeVars, ghostVars, Peer!ledgerVars,
            Peer!futureVars, Peer!pipeVars, Peer!ghostVars, Peer!adapterVars, loopVars
<1>0. AdapterTypeOK /\ LoopTypeOK /\ LoopHolds
  BY DEF BackendIInv, IInv, BackendInv
<1>1. ASSUME Sidecar, UNCHANGED loopVars
      PROVE  Peer!AdapterNext
  BY <1>0, <1>1, PeerSidecar DEF Peer!AdapterNext
<1>2. CASE ReadRequest
  BY <1>0, <1>2, ReadingIsInvisible DEF ReadRequest
<1>3. CASE UNCHANGED <<adapterVars, serving>>
  BY <1>3 DEF adapterVars, Unanswered
<1>4. CASE RejectEarly \/ ReplyInline \/ Respond
  BY <1>4, RepliesAreHonest, ReplyIsPluginAnswer DEF Peer!AdapterNext
<1>5. CASE ServeInline
  <2>1. serving \in Request /\ serving \in sent
    BY <1>0, <1>5, RequestAssumption DEF ServeInline, LoopHolds
  <2>2. CASE UNCHANGED applied
    BY <1>3, <1>5, <2>2 DEF ServeInline, adapterVars
  <2>3. CASE Mutation(serving) /\ applied' = applied \cup {serving}
    BY <1>5, <2>1, <2>3, ApplyingIsPeerStep DEF ServeInline, Peer!AdapterNext
  <2> QED
    BY <1>5, <2>2, <2>3 DEF ServeInline
<1>6. CASE RunHandler
  <2>1. work \in Request /\ work \in sent
    BY <1>6, WorkWasSent DEF RunHandler, RunOperation, BackendIInv, ExecutorInv, LineIsAdmitted
  <2>2. CASE UNCHANGED applied
    BY <1>3, <1>6, <2>2 DEF RunHandler, adapterVars
  <2>3. CASE Mutation(work) /\ applied' = applied \cup {work}
    BY <1>6, <2>1, <2>3, ApplyingIsPeerStep DEF RunHandler, Peer!AdapterNext
  <2> QED
    BY <1>6, <2>2, <2>3 DEF RunHandler
<1>7. CASE Disconnect
  <2>1. Unanswered' = <<>>
    BY <1>7 DEF Disconnect, PluginCloses, Unanswered
  <2>2. Peer!PluginCloses
    BY <1>7, <2>1 DEF Disconnect, PluginCloses, Peer!PluginCloses
  <2> QED
    BY <2>2 DEF Peer!AdapterNext, Peer!Plugin
<1> QED
  BY <1>1, <1>2, <1>3, <1>4, <1>5, <1>6, <1>7
     DEF BackendNext, IpcLoop, LoopEnds, Submit, ExecutorWorks, HandlerReturns, BeginStop,
         StopExecutor, backendVars

\* The plugin's loop, its executor and its Stop implement the plugin that
\* IpcAdapter assumes: one answer per request, in order, "ok" only for a mutation
\* performed, and none performed that was not sent.
THEOREM BackendImplementsPeer == BackendSafety => ImplementsPeer
<1>1. BackendInit => Peer!AdapterInit
  <2>1. BackendInit => Unanswered = <<>>
    BY DEF BackendInit, AdapterInit, Unanswered
  <2> QED
    BY <2>1 DEF BackendInit, AdapterInit, LedgerInit, Peer!AdapterInit, Peer!LedgerInit,
                Peer!NoValue, NoValue
<1>2. BackendIInv /\ [BackendNext]_backendVars => [Peer!AdapterNext]_(Peer!adapterVars)
  BY PeerStep
<1> QED
  BY <1>1, <1>2, BackendIInvAlways, PTL DEF BackendSafety, ImplementsPeer, Peer!AdapterSafety
=============================================================================
