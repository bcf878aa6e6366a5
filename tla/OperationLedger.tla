--------------------------- MODULE OperationLedger ---------------------------
(***************************************************************************)
(* The sidecar's bounded mutation ledger, crates/server/src/               *)
(* operation_ledger.rs.  Every mutating MCP call carries an operation_id;  *)
(* begin() admits it once and answers every later call with the same id    *)
(* from the entry it finds.  The whole of each method runs under one       *)
(* mutex, so each method is one action here.                               *)
(*                                                                         *)
(* `entries' is the HashMap: a function whose DOMAIN is the set of keys.   *)
(* Arguments are abstracted to a fingerprint, recorded results to a Value. *)
(* `now' is Instant::now() in units coarse enough to make Ttl small.       *)
(***************************************************************************)
EXTENDS Integers, FiniteSets

CONSTANTS
  OperationId,  \* the operation_id UUIDs clients use
  Fingerprint,  \* serialised (method, arguments) pairs
  Value,        \* results that complete() can record
  MaxEntries,   \* max_entries: LEDGER_CAPACITY, 1024 in ipc_adapter.rs
  Ttl,          \* ttl: LEDGER_TTL, ten minutes in ipc_adapter.rs
  MaxNow        \* bound on the clock of a finite model

\* OperationLedger::new refuses a zero capacity and a zero TTL.
ASSUME LedgerAssumption ==
  /\ MaxEntries \in Nat \ {0}
  /\ Ttl \in Nat \ {0}
  /\ MaxNow \in Nat

VARIABLES
  entries,      \* the HashMap<Uuid, Entry>
  now           \* the monotonic clock

ledgerVars == <<entries, now>>

NoValue == "NoValue"   \* the payload of an entry that is not Completed

Entry ==
  [fingerprint : Fingerprint,
   status      : {"InFlight", "Completed", "Unknown"},
   value       : Value \cup {NoValue},
   touched     : Nat]

LedgerTypeOK ==
  /\ DOMAIN entries \subseteq OperationId
  /\ entries \in [DOMAIN entries -> Entry]
  /\ now \in Nat
  /\ \A id \in DOMAIN entries : entries[id].touched <= now

-----------------------------------------------------------------------------
(* What begin() keeps, and what it answers.                                *)

\* Mutant: the age test alone decides, so an operation that is still running
\* is forgotten once it is older than the TTL.
RetainedByAgeAlone ==
  {id \in DOMAIN entries : now - entries[id].touched < Ttl}

\* Mutant: the age test is off by one.
RetainedTooBriefly ==
  {id \in DOMAIN entries :
     \/ entries[id].status = "InFlight"
     \/ now - entries[id].touched < Ttl - 1}

\* The ids that retain() keeps: in flight, or younger than the TTL.
Retained ==
  {id \in DOMAIN entries :
     \/ entries[id].status = "InFlight"
     \/ now - entries[id].touched < Ttl}

Evicted == DOMAIN entries \ Retained

\* begin()'s verdict.  A Completed entry is answered with entries[id].value.
Admission(id, fp) ==
  IF id \in Retained
    THEN IF entries[id].fingerprint # fp THEN "Conflict" ELSE entries[id].status
  ELSE IF Cardinality(Retained) >= MaxEntries THEN "Capacity"
  ELSE "Started"

\* The entry begin() inserts.
Admitted(fp) ==
  [fingerprint |-> fp, status |-> "InFlight", value |-> NoValue, touched |-> now]

-----------------------------------------------------------------------------
(* The methods.                                                            *)

\* Every call evicts first; a hit is touched, a miss is inserted if it fits.
Begin(id, fp) ==
  /\ entries' =
       IF id \in Retained
         THEN [i \in Retained |->
                 IF i = id THEN [entries[i] EXCEPT !.touched = now] ELSE entries[i]]
       ELSE IF Admission(id, fp) = "Started"
         THEN [i \in Retained \cup {id} |->
                 IF i = id THEN Admitted(fp) ELSE entries[i]]
       ELSE [i \in Retained |-> entries[i]]
  /\ UNCHANGED now

\* set_status overwrites whatever status it finds; a missing id is NotFound.
SetStatus(id, status, value) ==
  /\ id \in DOMAIN entries
  /\ entries' = [entries EXCEPT ![id] =
                   [fingerprint |-> entries[id].fingerprint, status |-> status,
                    value |-> value, touched |-> now]]
  /\ UNCHANGED now

Complete(id, value) == SetStatus(id, "Completed", value)

MarkUnknown(id) == SetStatus(id, "Unknown", NoValue)

\* `removable': the exact operation, still in flight.
Removable(id, fp) ==
  /\ id \in DOMAIN entries
  /\ entries[id].fingerprint = fp
  /\ entries[id].status = "InFlight"

AbandonUnstarted(id, fp) ==
  /\ Removable(id, fp)
  /\ entries' = [i \in DOMAIN entries \ {id} |-> entries[i]]
  /\ UNCHANGED now

\* Time passes.  MaxNow bounds a finite model.
Tick ==
  /\ now < MaxNow
  /\ now' = now + 1
  /\ UNCHANGED entries

-----------------------------------------------------------------------------
(* The ledger on its own, under callers that use it in any order.          *)

LedgerInit ==
  /\ entries = [id \in {} |-> NoValue]
  /\ now = 0

LedgerNext ==
  \/ \E id \in OperationId, fp \in Fingerprint : Begin(id, fp)
  \/ \E id \in OperationId, v \in Value : Complete(id, v)
  \/ \E id \in OperationId : MarkUnknown(id)
  \/ \E id \in OperationId, fp \in Fingerprint : AbandonUnstarted(id, fp)
  \/ Tick

LedgerSpec == LedgerInit /\ [][LedgerNext]_ledgerVars

-----------------------------------------------------------------------------
\* The HashMap never outgrows max_entries, whatever mix of retries, evictions
\* and settlements led here (begin, operation_ledger.rs:93).
LedgerBounded == Cardinality(DOMAIN entries) <= MaxEntries

\* An operation still in flight is never evicted by age, and an entry keeps
\* the arguments it was admitted with: it leaves the ledger only by an explicit
\* abandon, and its id cannot be rebound to other arguments while it lives.
InFlightSurvives ==
  [][\A id \in DOMAIN entries :
       entries[id].status = "InFlight" =>
         \/ id \in DOMAIN entries' /\ entries'[id].fingerprint = entries[id].fingerprint
         \/ AbandonUnstarted(id, entries[id].fingerprint)]_ledgerVars

\* A recorded outcome disappears only once it has been idle for the whole TTL:
\* a retry inside the window always finds it.
RecordedUntilIdle ==
  [][\A id \in DOMAIN entries :
       (id \notin DOMAIN entries' /\ entries[id].status # "InFlight")
         => now - entries[id].touched >= Ttl]_ledgerVars

\* What the ledger owes a retry: the entry of an operation in flight, and a
\* recorded outcome for the whole TTL (begin, evict_expired).
EntriesAreKept == InFlightSurvives /\ RecordedUntilIdle

=============================================================================
