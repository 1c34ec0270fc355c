--------------------------- MODULE EvidenceStore ---------------------------
(***************************************************************************)
(* The objects in the bucket and the rows that name them: an upload stores *)
(* its object under a fresh key first and commits the key afterwards       *)
(* (services.submit_payment_proof, services.set_payment_configuration_qr), *)
(* a registration copies the event's QR key onto its payment, and          *)
(* scripts/reconcile_storage.py compares the two sides, one listing and    *)
(* one query after the other, while all of this goes on.                   *)
(*                                                                         *)
(* Which proofs of a payment are accepted is EventRegistrations' subject;  *)
(* here a proof is its key.  A listing is one step: of a page-wise listing *)
(* only whether it saw a key matters.                                      *)
(***************************************************************************)
EXTENDS Naturals, FiniteSets

CONSTANTS
    Workers,
    MaxKeys,            \* bound: uploads
    NoKey,              \* the QR is GENERATED
    DeletedPrefixes     \* the prefixes an operator cleans up

Prefixes == {"proofs", "qr"}

ASSUME StoreAssumption ==
    /\ MaxKeys \in Nat
    /\ NoKey \notin 1..MaxKeys
    /\ DeletedPrefixes \subseteq Prefixes

VARIABLES
    stored,         \* of each prefix, the keys in the bucket
    issued,         \* how many keys persist_image has made
    proofs,         \* payment_proofs.storage_key
    config,         \* event_payment_configurations.qr_storage_key
    snapshots,      \* payments.qr_storage_key_snapshot
    handler,        \* of each worker, the request it serves
    script,         \* the reconciler's run
    lost,           \* of each prefix, the keys an incident destroyed
    lostBefore      \* history: proofs lost when the run began

rows == <<proofs, config, snapshots>>
storeVars == <<stored, issued, rows, handler, script, lost, lostBefore>>

Keys == 1..MaxKeys
NoHandler == [pc |-> "idle", prefix |-> "proofs", key |-> NoKey]
Ends(w) == handler' = [handler EXCEPT ![w] = NoHandler]

HandlerPlaces == {"idle", "put", "commit", "copy"}
ScriptPlaces ==
    {"idle", "proof_rows", "list_qr", "qr_current", "qr_copies", "done"}

\* seen: keys of the listing; old: of each prefix, those of no upload still
\* under way then; current: the first QR query's answer.
NoSide == [orphaned |-> {}, missing |-> {}]
NoRun == [pc |-> "idle", seen |-> {}, current |-> {},
          old |-> [p \in Prefixes |-> {}],
          report |-> [p \in Prefixes |-> NoSide]]

References ==
    [p \in Prefixes |->
        IF p = "proofs" THEN proofs ELSE (snapshots \cup {config}) \ {NoKey}]

UnderWay(prefix) ==
    {handler[w].key : w \in {v \in Workers :
        handler[v].pc \in {"put", "commit"} /\ handler[v].prefix = prefix}}

-----------------------------------------------------------------------------
(* Requests *)

StoreInit ==
    /\ stored = [p \in Prefixes |-> {}]
    /\ issued = 0
    /\ proofs = {}
    /\ config = NoKey
    /\ snapshots = {}
    /\ handler = [w \in Workers |-> NoHandler]
    /\ script = NoRun
    /\ lost = [p \in Prefixes |-> {}]
    /\ lostBefore = {}

\* persist_image, up to the put
PersistImage(w, prefix) ==
    /\ handler[w].pc = "idle"
    /\ issued < MaxKeys
    /\ issued' = issued + 1
    /\ handler' = [handler EXCEPT ![w] =
          [pc |-> "put", prefix |-> prefix, key |-> issued']]
    /\ UNCHANGED <<stored, rows, script, lost, lostBefore>>

\* Mutant: the answer of the store is not waited for.
Put_InBackground(w) ==
    /\ handler[w].pc = "put"
    /\ \/ stored' = [stored EXCEPT ![handler[w].prefix] =
                        @ \cup {handler[w].key}]
       \/ UNCHANGED stored
    /\ handler' = [handler EXCEPT ![w].pc = "commit"]
    /\ UNCHANGED <<issued, rows, script, lost, lostBefore>>

Put(w) ==
    /\ handler[w].pc = "put"
    /\ stored' = [stored EXCEPT ![handler[w].prefix] = @ \cup {handler[w].key}]
    /\ handler' = [handler EXCEPT ![w].pc = "commit"]
    /\ UNCHANGED <<issued, rows, script, lost, lostBefore>>

\* StorageUnavailableError, a refusal under the row lock, a replay or a crash:
\* the object may be there, and no row names it.
UploadFails(w) ==
    /\ handler[w].pc \in {"put", "commit"}
    /\ \/ stored' = [stored EXCEPT ![handler[w].prefix] =
                        @ \cup {handler[w].key}]
       \/ UNCHANGED stored
    /\ Ends(w)
    /\ UNCHANGED <<issued, rows, script, lost, lostBefore>>

\* submit_payment_proof
CommitProof(w) ==
    /\ handler[w].pc = "commit"
    /\ handler[w].prefix = "proofs"
    /\ proofs' = proofs \cup {handler[w].key}
    /\ Ends(w)
    /\ UNCHANGED <<stored, issued, config, snapshots, script, lost, lostBefore>>

\* set_payment_configuration_qr
CommitQr(w) ==
    /\ handler[w].pc = "commit"
    /\ handler[w].prefix = "qr"
    /\ config' = handler[w].key
    /\ Ends(w)
    /\ UNCHANGED <<stored, issued, proofs, snapshots, script, lost, lostBefore>>

\* update_payment_configuration
UseGeneratedQr ==
    /\ config # NoKey
    /\ config' = NoKey
    /\ UNCHANGED <<stored, issued, proofs, snapshots, handler, script, lost,
                   lostBefore>>

\* create_registration reads the configuration...
ReadConfig(w) ==
    /\ handler[w].pc = "idle"
    /\ config # NoKey
    /\ handler' = [handler EXCEPT ![w] =
          [pc |-> "copy", prefix |-> "qr", key |-> config]]
    /\ UNCHANGED <<stored, issued, rows, script, lost, lostBefore>>

\* ... and commits the payment.
CopyConfig(w) ==
    /\ handler[w].pc = "copy"
    /\ snapshots' = snapshots \cup {handler[w].key}
    /\ Ends(w)
    /\ UNCHANGED <<stored, issued, proofs, config, script, lost, lostBefore>>

-----------------------------------------------------------------------------
(* The reconciler and its operator *)

ListProofs ==
    /\ script.pc \in {"idle", "done"}
    /\ script' = [NoRun EXCEPT
          !.pc = "proof_rows", !.seen = stored["proofs"],
          !.old["proofs"] = stored["proofs"] \ UnderWay("proofs")]
    /\ lostBefore' = proofs \ stored["proofs"]
    /\ UNCHANGED <<stored, issued, rows, handler, lost>>

\* Mutant: the two sides of the report are exchanged.
Compared_Swapped(listed, named) ==
    [orphaned |-> named \ listed, missing |-> listed \ named]

\* One side of the report.
Compared(listed, named) ==
    [orphaned |-> listed \ named, missing |-> named \ listed]

QueryProofs ==
    /\ script.pc = "proof_rows"
    /\ script' = [script EXCEPT
          !.pc = "list_qr",
          !.report["proofs"] = Compared(script.seen, proofs)]
    /\ UNCHANGED <<stored, issued, rows, handler, lost, lostBefore>>

ListQr ==
    /\ script.pc = "list_qr"
    /\ script' = [script EXCEPT
          !.pc = "qr_current", !.seen = stored["qr"],
          !.old["qr"] = stored["qr"] \ UnderWay("qr")]
    /\ UNCHANGED <<stored, issued, rows, handler, lost, lostBefore>>

QueryCurrentQr ==
    /\ script.pc = "qr_current"
    /\ script' = [script EXCEPT !.pc = "qr_copies",
                                !.current = {config} \ {NoKey}]
    /\ UNCHANGED <<stored, issued, rows, handler, lost, lostBefore>>

QueryQrCopies ==
    /\ script.pc = "qr_copies"
    /\ script' = [script EXCEPT
          !.pc = "done",
          !.report["qr"] = Compared(script.seen, script.current \cup snapshots)]
    /\ UNCHANGED <<stored, issued, rows, handler, lost, lostBefore>>

\* Mutant: an orphan of the report is deleted whatever its age.
Deletable_AnyAge(prefix) == script.report[prefix].orphaned

\* "Confirmed orphans older than N days" (reconcile_storage.py:31-33): their
\* uploads were over when the bucket was listed.
Deletable(prefix) == script.old[prefix] \cap script.report[prefix].orphaned

\* confirm_delete
ConfirmDelete(prefix, key) ==
    /\ script.pc = "done"
    /\ prefix \in DeletedPrefixes
    /\ key \in Deletable(prefix) \cap stored[prefix]
    /\ stored' = [stored EXCEPT ![prefix] = @ \ {key}]
    /\ UNCHANGED <<issued, rows, handler, script, lost, lostBefore>>

\* A provider's incident or an operator's error.
Lose(prefix, key) ==
    /\ key \in stored[prefix]
    /\ stored' = [stored EXCEPT ![prefix] = @ \ {key}]
    /\ lost' = [lost EXCEPT ![prefix] = @ \cup {key}]
    /\ UNCHANGED <<issued, rows, handler, script, lostBefore>>

StoreNext ==
    \/ \E w \in Workers :
          \/ \E p \in Prefixes : PersistImage(w, p)
          \/ Put(w) \/ UploadFails(w)
          \/ CommitProof(w) \/ CommitQr(w)
          \/ ReadConfig(w) \/ CopyConfig(w)
    \/ UseGeneratedQr
    \/ ListProofs \/ QueryProofs \/ ListQr \/ QueryCurrentQr \/ QueryQrCopies
    \/ \E p \in Prefixes, k \in Keys : ConfirmDelete(p, k) \/ Lose(p, k)

StoreSpec == StoreInit /\ [][StoreNext]_storeVars

-----------------------------------------------------------------------------
(* Properties *)

StoreTypeOK ==
    /\ stored \in [Prefixes -> SUBSET Keys]
    /\ issued \in 0..MaxKeys
    /\ proofs \subseteq Keys
    /\ config \in Keys \cup {NoKey}
    /\ snapshots \subseteq Keys
    /\ handler \in [Workers -> [pc : HandlerPlaces, prefix : Prefixes,
                                key : Keys \cup {NoKey}]]
    /\ script.pc \in ScriptPlaces
    /\ script.seen \subseteq Keys
    /\ script.old \in [Prefixes -> SUBSET Keys]
    /\ script.current \subseteq Keys
    /\ script.report \in [Prefixes -> [orphaned : SUBSET Keys,
                                       missing : SUBSET Keys]]
    /\ lost \in [Prefixes -> SUBSET Keys]
    /\ lostBefore \subseteq Keys

\* Every proof, the event's QR and every QR a payment was shown has its
\* object, unless an incident destroyed it: neither an upload that fails in
\* the middle nor the clean-up of orphans takes it away (docs/storage.md:
\* 84-99, 186).
EvidenceIsKept ==
    \A p \in Prefixes : References[p] \subseteq stored[p] \cup lost[p]

\* A proof whose object was gone when the run began is in its report
\* (reconcile_storage.py:15-18).
LossIsReported ==
    script.pc = "done" => lostBefore \subseteq script.report["proofs"].missing

\* What the report calls missing is "an object that does not exist in
\* storage" (reconcile_storage.py:118-119).
AlertIsReal ==
    script.pc = "done" =>
        \A p \in Prefixes : script.report[p].missing \subseteq lost[p]
=============================================================================
