----------------------- MODULE StorageRealtimeProofs ------------------------
(***************************************************************************)
(* The two services beside the tables, each on its own: the bucket of the  *)
(* evidence (EvidenceStore) and PostgreSQL's notifications (Realtime).     *)
(*                                                                         *)
(* For any number of workers and uploads: what a row names is in the       *)
(* bucket unless an incident destroyed it, and a proof that was gone when  *)
(* the reconciler listed the bucket is in its report.                      *)
(*                                                                         *)
(* For any number of streams, changes and lost connections: a page that is *)
(* behind is about to be told.                                             *)
(***************************************************************************)
EXTENDS EvidenceStore, Realtime, TLAPS

Handler == [pc : HandlerPlaces, prefix : Prefixes, key : Keys \cup {NoKey}]

Side == [orphaned : SUBSET Keys, missing : SUBSET Keys]

Run == [pc : ScriptPlaces, seen : SUBSET Keys, current : SUBSET Keys,
        old : [Prefixes -> SUBSET Keys], report : [Prefixes -> Side]]

StoreTypes ==
    /\ stored \in [Prefixes -> SUBSET Keys]
    /\ issued \in 0..MaxKeys
    /\ proofs \in SUBSET Keys
    /\ config \in Keys \cup {NoKey}
    /\ snapshots \in SUBSET Keys
    /\ handler \in [Workers -> Handler]
    /\ script \in Run
    /\ lost \in [Prefixes -> SUBSET Keys]
    /\ lostBefore \in SUBSET Keys

\* No object, listing or request has a key that is still to be issued.
KeysAreIssued ==
    /\ \A p \in Prefixes : /\ stored[p] \subseteq 1..issued
                           /\ script.old[p] \subseteq 1..issued
    /\ config \in (1..issued) \cup {NoKey}
    /\ \A w \in Workers :
          handler[w].pc # "idle" => handler[w].key \in 1..issued

\* A proof that was lost when the run began stays a row, so the query finds
\* what the listing has not.
LossIsFollowed ==
    /\ script.pc = "proof_rows" => lostBefore \subseteq proofs \ script.seen
    /\ script.pc \in {"list_qr", "qr_current", "qr_copies", "done"} =>
          lostBefore \subseteq script.report["proofs"].missing

StoreInv == StoreTypes /\ KeysAreIssued /\ LossIsFollowed

\* An upload that was under way at the listing, or began since, is not old.
UploadsAreYoung ==
    \A w \in Workers :
        handler[w].pc \in {"put", "commit"} /\ handler[w].prefix = "proofs" =>
            handler[w].key \notin script.old["proofs"]

\* What a request is about to name is in the bucket already.
UploadsAreKept ==
    \A w \in Workers : handler[w].pc \in {"commit", "copy"} =>
        handler[w].key \in stored[handler[w].prefix] \cup lost[handler[w].prefix]

CopiesAreOfQrs == \A w \in Workers : handler[w].pc = "copy" => handler[w].prefix = "qr"

\* An old key that no row named has no row to come.
OrphansStayUnnamed == Deletable("proofs") \cap proofs = {}

KeptInv ==
    /\ UploadsAreYoung
    /\ UploadsAreKept
    /\ CopiesAreOfQrs
    /\ OrphansStayUnnamed
    /\ EvidenceIsKept

-----------------------------------------------------------------------------
(* Types, issued keys and the report's lost proofs *)

LEMMA Idle == NoHandler \in Handler /\ NoHandler.pc = "idle"
  BY DEF NoHandler, Handler, HandlerPlaces, Prefixes

LEMMA IssuedKeys ==
    ASSUME StoreTypes
    PROVE  /\ issued \in Nat /\ 1..issued \subseteq Keys
           /\ NoKey \notin 1..issued
  BY StoreAssumption DEF StoreTypes, Keys

\* One request moves on.
LEMMA OneRequest ==
    ASSUME StoreTypes, NEW w \in Workers, NEW h \in Handler,
           handler' = [handler EXCEPT ![w] = h]
    PROVE  /\ handler' \in [Workers -> Handler] /\ handler'[w] = h
           /\ \A v \in Workers \ {w} : handler'[v] = handler[v]
  BY DEF StoreTypes

\* A step of a request leaves the run alone and removes no proof.
LEMMA RequestsFollow ==
    ASSUME StoreInv, UNCHANGED <<script, lostBefore>>, proofs \subseteq proofs',
           StoreTypes', KeysAreIssued'
    PROVE  StoreInv'
  BY DEF StoreInv, LossIsFollowed

LEMMA PersistTypes ==
    ASSUME StoreInv, NEW w \in Workers, NEW p \in Prefixes, PersistImage(w, p)
    PROVE  StoreInv'
  <1> DEFINE h == [pc |-> "put", prefix |-> p, key |-> issued + 1]
  <1>1. issued \in Nat /\ issued + 1 \in 1..MaxKeys /\ issued' = issued + 1
    BY StoreAssumption DEF PersistImage, StoreInv, StoreTypes
  <1>2. h \in Handler
    BY <1>1 DEF Handler, HandlerPlaces, Keys
  <1>3. handler' = [handler EXCEPT ![w] = h]
    BY DEF PersistImage
  <1>4. h.pc = "put" /\ h.key = issued + 1
    OBVIOUS
  <1> HIDE DEF h
  <1>5. /\ handler' \in [Workers -> Handler] /\ handler'[w] = h
        /\ \A v \in Workers \ {w} : handler'[v] = handler[v]
    BY <1>2, <1>3, OneRequest DEF StoreInv
  <1>6. StoreTypes'
    BY <1>1, <1>5, StoreAssumption DEF PersistImage, rows, StoreInv, StoreTypes
  <1>7. 1..issued \subseteq 1..issued' /\ issued + 1 \in 1..issued'
    BY <1>1
  <1>8. KeysAreIssued'
    <2>1. \A v \in Workers : handler'[v].pc # "idle" => handler'[v].key \in 1..issued'
      BY <1>4, <1>5, <1>7 DEF StoreInv, KeysAreIssued
    <2> QED BY <1>7, <2>1 DEF PersistImage, rows, StoreInv, KeysAreIssued
  <1> QED BY <1>6, <1>8, RequestsFollow DEF PersistImage, rows

LEMMA PutTypes ==
    ASSUME StoreInv, NEW w \in Workers, Put(w) \/ UploadFails(w)
    PROVE  StoreInv'
  <1> DEFINE key == handler[w].key
             p == handler[w].prefix
             h == [handler[w] EXCEPT !.pc = "commit"]
  <1>1. /\ key \in 1..issued /\ p \in Prefixes /\ h \in Handler
        /\ h.key = key /\ h.pc = "commit"
    BY DEF Put, UploadFails, StoreInv, StoreTypes, KeysAreIssued, Handler, HandlerPlaces
  <1>2. handler' = [handler EXCEPT ![w] = h] \/ handler' = [handler EXCEPT ![w] = NoHandler]
    BY DEF Put, UploadFails, Ends, StoreInv, StoreTypes
  <1>3. stored' = [stored EXCEPT ![p] = @ \cup {key}] \/ stored' = stored
    BY DEF Put, UploadFails
  <1>4. UNCHANGED <<issued, proofs, config, snapshots, script, lost, lostBefore>>
    BY DEF Put, UploadFails, rows
  <1> HIDE DEF key, p, h
  <1>5. /\ handler' \in [Workers -> Handler]
        /\ \A v \in Workers \ {w} : handler'[v] = handler[v]
        /\ handler'[w] = h \/ handler'[w] = NoHandler
    BY <1>1, <1>2, Idle, OneRequest DEF StoreInv
  <1>6. /\ stored' \in [Prefixes -> SUBSET Keys]
        /\ \A q \in Prefixes : stored'[q] \subseteq 1..issued
    BY <1>1, <1>3, IssuedKeys DEF StoreInv, StoreTypes, KeysAreIssued
  <1>7. StoreTypes'
    BY <1>4, <1>5, <1>6 DEF StoreInv, StoreTypes
  <1>8. KeysAreIssued'
    <2>1. \A v \in Workers : handler'[v].pc # "idle" => handler'[v].key \in 1..issued
      BY <1>1, <1>5, Idle DEF StoreInv, KeysAreIssued
    <2> QED BY <1>4, <1>6, <2>1 DEF StoreInv, KeysAreIssued
  <1> QED BY <1>4, <1>7, <1>8, RequestsFollow

LEMMA CommitTypes ==
    ASSUME StoreInv, NEW w \in Workers,
           CommitProof(w) \/ CommitQr(w) \/ CopyConfig(w)
    PROVE  StoreInv'
  <1> DEFINE key == handler[w].key
  <1>1. key \in 1..issued
    BY DEF CommitProof, CommitQr, CopyConfig, StoreInv, KeysAreIssued
  <1>2. handler' = [handler EXCEPT ![w] = NoHandler]
    BY DEF CommitProof, CommitQr, CopyConfig, Ends
  <1>3. /\ UNCHANGED <<stored, issued, script, lost, lostBefore>>
        /\ proofs' = proofs \/ proofs' = proofs \cup {key}
        /\ config' = config \/ config' = key
        /\ snapshots' = snapshots \/ snapshots' = snapshots \cup {key}
    BY DEF CommitProof, CommitQr, CopyConfig
  <1> HIDE DEF key
  <1>4. /\ handler' \in [Workers -> Handler]
        /\ \A v \in Workers : handler'[v].pc # "idle" => handler'[v] = handler[v]
    BY <1>2, Idle, OneRequest DEF StoreInv
  <1>5. key \in Keys
    BY <1>1, IssuedKeys DEF StoreInv
  <1>6. StoreTypes'
    BY <1>3, <1>4, <1>5 DEF StoreInv, StoreTypes
  <1>7. KeysAreIssued'
    BY <1>1, <1>3, <1>4 DEF StoreInv, KeysAreIssued
  <1> QED BY <1>3, <1>6, <1>7, RequestsFollow

LEMMA ReadTypes ==
    ASSUME StoreInv, NEW w \in Workers, ReadConfig(w)
    PROVE  StoreInv'
  <1> DEFINE h == [pc |-> "copy", prefix |-> "qr", key |-> config]
  <1>1. config \in 1..issued /\ config \in Keys
    BY DEF ReadConfig, StoreInv, StoreTypes, KeysAreIssued
  <1>2. h \in Handler /\ h.key = config
    BY <1>1 DEF Handler, HandlerPlaces, Prefixes
  <1>3. handler' = [handler EXCEPT ![w] = h]
    BY DEF ReadConfig
  <1> HIDE DEF h
  <1>4. /\ handler' \in [Workers -> Handler] /\ handler'[w] = h
        /\ \A v \in Workers \ {w} : handler'[v] = handler[v]
    BY <1>2, <1>3, OneRequest DEF StoreInv
  <1>5. StoreTypes'
    BY <1>4 DEF ReadConfig, rows, StoreInv, StoreTypes
  <1>6. KeysAreIssued'
    <2>1. \A v \in Workers : handler'[v].pc # "idle" => handler'[v].key \in 1..issued
      BY <1>1, <1>2, <1>4 DEF StoreInv, KeysAreIssued
    <2> QED BY <2>1 DEF ReadConfig, rows, StoreInv, KeysAreIssued
  <1> QED BY <1>5, <1>6, RequestsFollow DEF ReadConfig, rows

LEMMA BucketTypes ==
    ASSUME StoreInv, NEW p \in Prefixes, NEW k \in Keys,
           ConfirmDelete(p, k) \/ Lose(p, k)
    PROVE  StoreInv'
  <1>1. /\ UNCHANGED <<issued, proofs, config, snapshots, handler, script, lostBefore>>
        /\ stored' = [stored EXCEPT ![p] = @ \ {k}]
        /\ lost' = lost \/ lost' = [lost EXCEPT ![p] = @ \cup {k}]
    BY DEF ConfirmDelete, Lose, rows
  <1>2. /\ stored' \in [Prefixes -> SUBSET Keys]
        /\ \A q \in Prefixes : stored'[q] \subseteq stored[q]
        /\ lost' \in [Prefixes -> SUBSET Keys]
    BY <1>1 DEF StoreInv, StoreTypes
  <1>3. StoreTypes'
    BY <1>1, <1>2 DEF StoreInv, StoreTypes
  <1>4. KeysAreIssued'
    BY <1>1, <1>2 DEF StoreInv, KeysAreIssued
  <1> QED BY <1>1, <1>3, <1>4, RequestsFollow

LEMMA GeneratedTypes ==
    ASSUME StoreInv, UseGeneratedQr
    PROVE  StoreInv'
  <1>1. StoreTypes'
    BY DEF UseGeneratedQr, StoreInv, StoreTypes
  <1>2. KeysAreIssued'
    BY DEF UseGeneratedQr, StoreInv, KeysAreIssued
  <1> QED BY <1>1, <1>2, RequestsFollow DEF UseGeneratedQr

\* The listing of the proofs: a proof that is lost by now is a row, and not
\* listed.
LEMMA ListProofsTypes ==
    ASSUME StoreInv, ListProofs
    PROVE  StoreInv'
  <1>1. /\ script'.pc = "proof_rows" /\ script'.seen = stored["proofs"]
        /\ script' \in Run
        /\ \A p \in Prefixes : script'.old[p] \subseteq stored[p]
    BY DEF ListProofs, NoRun, NoSide, Run, Side, ScriptPlaces, Prefixes,
           StoreInv, StoreTypes
  <1>2. StoreTypes'
    BY <1>1 DEF ListProofs, rows, StoreInv, StoreTypes
  <1>3. KeysAreIssued'
    BY <1>1 DEF ListProofs, rows, StoreInv, KeysAreIssued
  <1>4. LossIsFollowed'
    BY <1>1 DEF ListProofs, rows, LossIsFollowed
  <1> QED BY <1>2, <1>3, <1>4 DEF StoreInv

LEMMA QueryProofsTypes ==
    ASSUME StoreInv, QueryProofs
    PROVE  StoreInv'
  <1>1. script \in Run /\ proofs \in SUBSET Keys
    BY DEF StoreInv, StoreTypes
  <1>2. Compared(script.seen, proofs) \in Side
    BY <1>1 DEF Compared, Run, Side
  <1>3. /\ script' \in Run /\ script'.pc = "list_qr" /\ script'.old = script.old
        /\ script'.report["proofs"] = Compared(script.seen, proofs)
    BY <1>1, <1>2 DEF QueryProofs, Run, ScriptPlaces, Prefixes
  <1>4. StoreTypes'
    BY <1>3 DEF QueryProofs, rows, StoreInv, StoreTypes
  <1>5. KeysAreIssued'
    BY <1>3 DEF QueryProofs, rows, StoreInv, KeysAreIssued
  <1>6. LossIsFollowed'
    <2>1. lostBefore \subseteq proofs \ script.seen
      BY DEF QueryProofs, StoreInv, LossIsFollowed
    <2>2. Compared(script.seen, proofs).missing = proofs \ script.seen
      BY DEF Compared
    <2> QED BY <1>3, <2>1, <2>2 DEF QueryProofs, LossIsFollowed
  <1> QED BY <1>4, <1>5, <1>6 DEF StoreInv

\* The listing and the queries of the QRs leave the other side's report alone.
LEMMA QrStepTypes ==
    ASSUME StoreInv, ListQr \/ QueryCurrentQr \/ QueryQrCopies
    PROVE  /\ StoreInv'
           /\ script'.old["proofs"] = script.old["proofs"]
           /\ script'.report["proofs"] = script.report["proofs"]
  <1>1. /\ script \in Run /\ stored \in [Prefixes -> SUBSET Keys]
        /\ snapshots \in SUBSET Keys /\ config \in Keys \cup {NoKey}
    BY DEF StoreInv, StoreTypes
  <1>2. UNCHANGED <<stored, issued, proofs, config, snapshots, handler, lost, lostBefore>>
    BY DEF ListQr, QueryCurrentQr, QueryQrCopies, rows
  <1>3. Compared(script.seen, script.current \cup snapshots) \in Side
    BY <1>1 DEF Compared, Run, Side
  <1>4. /\ script' \in Run
        /\ script'.pc \in {"qr_current", "qr_copies", "done"}
        /\ script.pc \in {"list_qr", "qr_current", "qr_copies"}
        /\ script'.old["proofs"] = script.old["proofs"]
        /\ script'.report["proofs"] = script.report["proofs"]
        /\ script'.old["qr"] \subseteq script.old["qr"] \cup stored["qr"]
    <2>1. CASE ListQr
      BY <1>1, <2>1 DEF ListQr, Run, ScriptPlaces, Prefixes
    <2>2. CASE QueryCurrentQr
      BY <1>1, <2>2 DEF QueryCurrentQr, Run, ScriptPlaces, Prefixes
    <2>3. CASE QueryQrCopies
      BY <1>1, <1>3, <2>3 DEF QueryQrCopies, Run, ScriptPlaces, Prefixes
    <2> QED BY <2>1, <2>2, <2>3
  <1>5. StoreTypes'
    BY <1>2, <1>4 DEF StoreInv, StoreTypes
  <1>6. KeysAreIssued'
    BY <1>2, <1>4 DEF StoreInv, KeysAreIssued, Prefixes
  <1>7. LossIsFollowed'
    BY <1>2, <1>4 DEF StoreInv, LossIsFollowed
  <1> QED BY <1>4, <1>5, <1>6, <1>7 DEF StoreInv

LEMMA StoreStep ==
    ASSUME StoreInv, [StoreNext]_storeVars
    PROVE  StoreInv'
  <1>1. CASE UNCHANGED storeVars
    BY <1>1 DEF storeVars, rows, StoreInv, StoreTypes, KeysAreIssued, LossIsFollowed
  <1>2. ASSUME NEW w \in Workers, NEW p \in Prefixes, PersistImage(w, p)
        PROVE  StoreInv'
    BY <1>2, PersistTypes
  <1>3. ASSUME NEW w \in Workers, Put(w) \/ UploadFails(w)
        PROVE  StoreInv'
    BY <1>3, PutTypes
  <1>4. ASSUME NEW w \in Workers, CommitProof(w) \/ CommitQr(w) \/ CopyConfig(w)
        PROVE  StoreInv'
    BY <1>4, CommitTypes
  <1>5. ASSUME NEW w \in Workers, ReadConfig(w)
        PROVE  StoreInv'
    BY <1>5, ReadTypes
  <1>6. ASSUME NEW p \in Prefixes, NEW k \in Keys, ConfirmDelete(p, k) \/ Lose(p, k)
        PROVE  StoreInv'
    BY <1>6, BucketTypes
  <1> QED BY <1>1, <1>2, <1>3, <1>4, <1>5, <1>6, GeneratedTypes,
             ListProofsTypes, QueryProofsTypes, QrStepTypes DEF StoreNext

LEMMA StoreStart == StoreInit => StoreInv
  <1> SUFFICES ASSUME StoreInit PROVE StoreInv
    OBVIOUS
  <1>1. StoreTypes
    BY Idle, StoreAssumption
       DEF StoreInit, StoreTypes, NoRun, NoSide, Run, Side, ScriptPlaces
  <1>2. KeysAreIssued /\ LossIsFollowed
    BY Idle DEF StoreInit, KeysAreIssued, LossIsFollowed, NoRun
  <1> QED BY <1>1, <1>2 DEF StoreInv

LEMMA StoreInvariant == StoreSpec => []StoreInv
  <1> QED BY StoreStart, StoreStep, PTL DEF StoreSpec

\* The alert the reconciler exists for: a proof whose object was gone when the
\* run began is in its report, whatever is uploaded, committed, deleted or
\* lost between its listings and its queries.
THEOREM ReportTheorem == StoreSpec => []LossIsReported
  <1>1. StoreInv => LossIsReported
    BY DEF StoreInv, LossIsFollowed, LossIsReported
  <1> QED BY <1>1, StoreInvariant, PTL

-----------------------------------------------------------------------------
(* What is named is kept *)

\* A request that begins, proceeds or ends: what it holds is young, and kept
\* if it is to be named next.
LEMMA RequestKept ==
    ASSUME StoreInv, KeptInv, NEW w \in Workers, NEW h \in Handler,
           handler' = [handler EXCEPT ![w] = h],
           UNCHANGED <<script, lost>>,
           stored' \in [Prefixes -> SUBSET Keys],
           \A p \in Prefixes : stored[p] \subseteq stored'[p],
           h.pc \in {"put", "commit"} /\ h.prefix = "proofs" =>
               h.key \notin script.old["proofs"],
           h.pc \in {"commit", "copy"} => h.key \in stored'[h.prefix] \cup lost[h.prefix],
           h.pc = "copy" => h.prefix = "qr"
    PROVE  UploadsAreYoung' /\ UploadsAreKept' /\ CopiesAreOfQrs'
  <1>1. /\ handler' \in [Workers -> Handler] /\ handler'[w] = h
        /\ \A v \in Workers \ {w} : handler'[v] = handler[v]
    BY OneRequest DEF StoreInv
  <1>2. UploadsAreYoung'
    BY <1>1 DEF KeptInv, UploadsAreYoung
  <1>3. UploadsAreKept'
    <2> SUFFICES ASSUME NEW v \in Workers, handler'[v].pc \in {"commit", "copy"}
                 PROVE  handler'[v].key \in stored'[handler'[v].prefix]
                                               \cup lost[handler'[v].prefix]
      BY DEF UploadsAreKept
    <2>1. CASE v = w
      BY <1>1, <2>1
    <2>2. CASE v # w
      <3>1. handler'[v] = handler[v] /\ handler[v].prefix \in Prefixes
        BY <1>1, <2>2 DEF StoreInv, StoreTypes, Handler
      <3> QED BY <3>1 DEF KeptInv, UploadsAreKept
    <2> QED BY <2>1, <2>2
  <1>4. CopiesAreOfQrs'
    BY <1>1 DEF KeptInv, CopiesAreOfQrs
  <1> QED BY <1>2, <1>3, <1>4

LEMMA PersistKept ==
    ASSUME StoreInv, KeptInv, NEW w \in Workers, NEW p \in Prefixes, PersistImage(w, p)
    PROVE  KeptInv'
  <1> DEFINE h == [pc |-> "put", prefix |-> p, key |-> issued + 1]
  <1>1. issued \in Nat /\ issued + 1 \in 1..MaxKeys
    BY StoreAssumption DEF PersistImage, StoreInv, StoreTypes
  <1>2. h \in Handler
    BY <1>1 DEF Handler, HandlerPlaces, Keys
  <1>3. handler' = [handler EXCEPT ![w] = h]
    BY DEF PersistImage
  <1>4. h.pc = "put" /\ h.key = issued + 1
    OBVIOUS
  <1> HIDE DEF h
  <1>5. issued + 1 \notin script.old["proofs"]
    BY <1>1 DEF StoreInv, KeysAreIssued, Prefixes
  <1>6. UNCHANGED <<stored, proofs, config, snapshots, script, lost>>
    BY DEF PersistImage, rows
  <1>7. UploadsAreYoung' /\ UploadsAreKept' /\ CopiesAreOfQrs'
    BY <1>2, <1>3, <1>4, <1>5, <1>6, RequestKept DEF StoreInv, StoreTypes
  <1>8. OrphansStayUnnamed' /\ EvidenceIsKept'
    BY <1>6 DEF KeptInv, OrphansStayUnnamed, Deletable, EvidenceIsKept, References
  <1> QED BY <1>7, <1>8 DEF KeptInv

LEMMA PutKept ==
    ASSUME StoreInv, KeptInv, NEW w \in Workers, Put(w) \/ UploadFails(w)
    PROVE  KeptInv'
  <1> DEFINE key == handler[w].key
             p == handler[w].prefix
             h == [handler[w] EXCEPT !.pc = "commit"]
  <1>1. /\ key \in Keys /\ p \in Prefixes /\ h \in Handler
        /\ h.key = key /\ h.pc = "commit" /\ h.prefix = p
    BY IssuedKeys DEF Put, UploadFails, StoreInv, StoreTypes, KeysAreIssued,
                      Handler, HandlerPlaces
  <1>2. p = "proofs" => key \notin script.old["proofs"]
    BY DEF Put, UploadFails, KeptInv, UploadsAreYoung
  <1>3. \/ /\ handler' = [handler EXCEPT ![w] = h]
           /\ stored' = [stored EXCEPT ![p] = @ \cup {key}]
        \/ /\ handler' = [handler EXCEPT ![w] = NoHandler]
           /\ stored' = [stored EXCEPT ![p] = @ \cup {key}] \/ stored' = stored
    BY DEF Put, UploadFails, Ends, StoreInv, StoreTypes
  <1>4. UNCHANGED <<proofs, config, snapshots, script, lost>>
    BY DEF Put, UploadFails, rows
  <1> HIDE DEF key, p, h
  <1>5. /\ stored' \in [Prefixes -> SUBSET Keys]
        /\ \A q \in Prefixes : stored[q] \subseteq stored'[q]
        /\ stored' = [stored EXCEPT ![p] = @ \cup {key}] => key \in stored'[p]
    BY <1>1, <1>3 DEF StoreInv, StoreTypes
  <1>6. UploadsAreYoung' /\ UploadsAreKept' /\ CopiesAreOfQrs'
    <2>1. CASE handler' = [handler EXCEPT ![w] = NoHandler]
      BY <1>4, <1>5, <2>1, Idle, RequestKept
    <2>2. CASE /\ handler' = [handler EXCEPT ![w] = h]
               /\ stored' = [stored EXCEPT ![p] = @ \cup {key}]
      BY <1>1, <1>2, <1>4, <1>5, <2>2, RequestKept
    <2> QED BY <1>3, <2>1, <2>2
  <1>7. OrphansStayUnnamed'
    BY <1>4 DEF KeptInv, OrphansStayUnnamed, Deletable
  <1>8. EvidenceIsKept'
    BY <1>4, <1>5 DEF KeptInv, EvidenceIsKept, References
  <1> QED BY <1>6, <1>7, <1>8 DEF KeptInv

\* A key is named after its object is stored.
LEMMA CommitKept ==
    ASSUME StoreInv, KeptInv, NEW w \in Workers,
           CommitProof(w) \/ CommitQr(w) \/ CopyConfig(w)
    PROVE  KeptInv'
  <1> DEFINE key == handler[w].key
             p == handler[w].prefix
  <1>1. /\ handler' = [handler EXCEPT ![w] = NoHandler]
        /\ UNCHANGED <<stored, script, lost>>
    BY DEF CommitProof, CommitQr, CopyConfig, Ends
  <1>2. key \in stored[p] \cup lost[p]
    BY DEF CommitProof, CommitQr, CopyConfig, KeptInv, UploadsAreKept
  <1>3. \/ /\ p = "proofs" /\ proofs' = proofs \cup {key}
           /\ key \notin script.old["proofs"] /\ UNCHANGED <<config, snapshots>>
        \/ /\ p = "qr" /\ UNCHANGED proofs
           /\ \/ config' = key /\ UNCHANGED snapshots
              \/ snapshots' = snapshots \cup {key} /\ UNCHANGED config
    BY DEF CommitProof, CommitQr, CopyConfig, KeptInv, UploadsAreYoung, CopiesAreOfQrs
  <1> HIDE DEF key, p
  <1>4. UploadsAreYoung' /\ UploadsAreKept' /\ CopiesAreOfQrs'
    BY <1>1, Idle, RequestKept DEF StoreInv, StoreTypes
  <1>5. OrphansStayUnnamed'
    BY <1>1, <1>3 DEF KeptInv, OrphansStayUnnamed, Deletable
  <1>6. \A q \in Prefixes : References'[q] \subseteq References[q] \cup
                                (IF q = p THEN {key} ELSE {})
    BY <1>3 DEF References, Prefixes
  <1>7. EvidenceIsKept'
    BY <1>1, <1>2, <1>6 DEF KeptInv, EvidenceIsKept
  <1> QED BY <1>4, <1>5, <1>7 DEF KeptInv

LEMMA ReadKept ==
    ASSUME StoreInv, KeptInv, NEW w \in Workers, ReadConfig(w)
    PROVE  KeptInv'
  <1> DEFINE h == [pc |-> "copy", prefix |-> "qr", key |-> config]
  <1>1. config \in Keys /\ config # NoKey
    BY DEF ReadConfig, StoreInv, StoreTypes
  <1>2. h \in Handler /\ h.pc = "copy" /\ h.prefix = "qr" /\ h.key = config
    BY <1>1 DEF Handler, HandlerPlaces, Prefixes
  <1>3. config \in stored["qr"] \cup lost["qr"]
    BY <1>1 DEF KeptInv, EvidenceIsKept, References, Prefixes
  <1>4. /\ handler' = [handler EXCEPT ![w] = h]
        /\ UNCHANGED <<stored, proofs, config, snapshots, script, lost>>
    BY DEF ReadConfig, rows
  <1> HIDE DEF h
  <1>5. UploadsAreYoung' /\ UploadsAreKept' /\ CopiesAreOfQrs'
    BY <1>2, <1>3, <1>4, RequestKept DEF StoreInv, StoreTypes
  <1>6. OrphansStayUnnamed' /\ EvidenceIsKept'
    BY <1>4 DEF KeptInv, OrphansStayUnnamed, Deletable, EvidenceIsKept, References
  <1> QED BY <1>5, <1>6 DEF KeptInv

LEMMA GeneratedKept ==
    ASSUME StoreInv, KeptInv, UseGeneratedQr
    PROVE  KeptInv'
  <1>1. UploadsAreYoung' /\ UploadsAreKept' /\ CopiesAreOfQrs' /\ OrphansStayUnnamed'
    BY DEF UseGeneratedQr, KeptInv, UploadsAreYoung, UploadsAreKept,
           CopiesAreOfQrs, OrphansStayUnnamed, Deletable
  <1>2. EvidenceIsKept'
    BY DEF UseGeneratedQr, KeptInv, EvidenceIsKept, References
  <1> QED BY <1>1, <1>2 DEF KeptInv

\* The run reads.  Its listing makes the keys of earlier uploads old, and its
\* query knows every proof that could name one of them.
LEMMA RunKept ==
    ASSUME StoreInv, KeptInv,
           ListProofs \/ QueryProofs \/ ListQr \/ QueryCurrentQr \/ QueryQrCopies
    PROVE  KeptInv'
  <1>1. UNCHANGED <<stored, proofs, config, snapshots, handler, lost>>
    BY DEF ListProofs, QueryProofs, ListQr, QueryCurrentQr, QueryQrCopies, rows
  <1>2. script \in Run
    BY DEF StoreInv, StoreTypes
  <1>3. UploadsAreKept' /\ CopiesAreOfQrs' /\ EvidenceIsKept'
    BY <1>1 DEF KeptInv, UploadsAreKept, CopiesAreOfQrs, EvidenceIsKept, References
  <1>4. UploadsAreYoung' /\ OrphansStayUnnamed'
    <2>1. CASE ListProofs
      <3>1. /\ script'.old["proofs"] = stored["proofs"] \ UnderWay("proofs")
            /\ script'.report["proofs"].orphaned = {}
        BY <2>1 DEF ListProofs, NoRun, NoSide, Prefixes
      <3>2. \A w \in Workers :
               handler[w].pc \in {"put", "commit"} /\ handler[w].prefix = "proofs" =>
                   handler[w].key \in UnderWay("proofs")
        BY DEF UnderWay
      <3> QED BY <1>1, <3>1, <3>2 DEF UploadsAreYoung, OrphansStayUnnamed, Deletable
    <2>2. CASE QueryProofs
      <3>1. /\ script'.old["proofs"] = script.old["proofs"]
            /\ script'.report["proofs"].orphaned = script.seen \ proofs
        BY <1>2, <2>2 DEF QueryProofs, Compared, Run, Prefixes
      <3> QED BY <1>1, <3>1
              DEF KeptInv, UploadsAreYoung, OrphansStayUnnamed, Deletable
    <2>3. CASE ListQr \/ QueryCurrentQr \/ QueryQrCopies
      BY <1>1, <2>3, QrStepTypes
         DEF KeptInv, UploadsAreYoung, OrphansStayUnnamed, Deletable
    <2> QED BY <2>1, <2>2, <2>3
  <1> QED BY <1>3, <1>4 DEF KeptInv

LEMMA LoseKept ==
    ASSUME StoreInv, KeptInv, NEW p \in Prefixes, NEW k \in Keys, Lose(p, k)
    PROVE  KeptInv'
  <1>1. UNCHANGED <<proofs, config, snapshots, handler, script>>
    BY DEF Lose, rows
  <1>2. \A q \in Prefixes : stored'[q] \cup lost'[q] = stored[q] \cup lost[q]
    BY DEF Lose, StoreInv, StoreTypes
  <1>3. UploadsAreYoung' /\ CopiesAreOfQrs' /\ OrphansStayUnnamed'
    BY <1>1 DEF KeptInv, UploadsAreYoung, CopiesAreOfQrs, OrphansStayUnnamed, Deletable
  <1>4. UploadsAreKept'
    BY <1>1, <1>2 DEF KeptInv, UploadsAreKept, StoreInv, StoreTypes, Handler
  <1>5. EvidenceIsKept'
    BY <1>1, <1>2 DEF KeptInv, EvidenceIsKept, References
  <1> QED BY <1>3, <1>4, <1>5 DEF KeptInv

\* The operator deletes no key that is named or about to be.
LEMMA DeleteKept ==
    ASSUME StoreInv, KeptInv, DeletedPrefixes \subseteq {"proofs"},
           NEW p \in Prefixes, NEW k \in Keys, ConfirmDelete(p, k)
    PROVE  KeptInv'
  <1>1. /\ p = "proofs" /\ k \in Deletable("proofs")
        /\ UNCHANGED <<proofs, config, snapshots, handler, script, lost>>
        /\ stored' = [stored EXCEPT !["proofs"] = @ \ {k}]
    BY DEF ConfirmDelete, rows
  <1>2. k \notin proofs /\ k \in script.old["proofs"]
    BY <1>1 DEF KeptInv, OrphansStayUnnamed, Deletable
  <1>3. /\ stored'["proofs"] = stored["proofs"] \ {k}
        /\ stored'["qr"] = stored["qr"]
    BY <1>1 DEF StoreInv, StoreTypes, Prefixes
  <1>4. UploadsAreYoung' /\ CopiesAreOfQrs' /\ OrphansStayUnnamed'
    BY <1>1 DEF KeptInv, UploadsAreYoung, CopiesAreOfQrs, OrphansStayUnnamed, Deletable
  <1>5. UploadsAreKept'
    <2> SUFFICES ASSUME NEW v \in Workers, handler[v].pc \in {"commit", "copy"}
                 PROVE  handler[v].key \in stored'[handler[v].prefix]
                                              \cup lost[handler[v].prefix]
      BY <1>1 DEF UploadsAreKept
    <2>1. handler[v].key \in stored[handler[v].prefix] \cup lost[handler[v].prefix]
      BY DEF KeptInv, UploadsAreKept
    <2>2. CASE handler[v].prefix = "qr"
      BY <1>3, <2>1, <2>2
    <2>3. CASE handler[v].prefix = "proofs"
      <3>1. handler[v].pc = "commit"
        BY <2>3 DEF KeptInv, CopiesAreOfQrs
      <3>2. handler[v].key # k
        BY <1>2, <2>3, <3>1 DEF KeptInv, UploadsAreYoung
      <3> QED BY <1>3, <2>1, <2>3, <3>2
    <2>4. handler[v].prefix \in Prefixes
      BY DEF StoreInv, StoreTypes, Handler
    <2> QED BY <2>2, <2>3, <2>4 DEF Prefixes
  <1>6. EvidenceIsKept'
    BY <1>1, <1>2, <1>3 DEF KeptInv, EvidenceIsKept, References, Prefixes
  <1> QED BY <1>4, <1>5, <1>6 DEF KeptInv

LEMMA KeptStep ==
    ASSUME DeletedPrefixes \subseteq {"proofs"}, StoreInv, KeptInv,
           [StoreNext]_storeVars
    PROVE  KeptInv'
  <1>1. CASE UNCHANGED storeVars
    BY <1>1 DEF storeVars, rows, KeptInv, UploadsAreYoung, UploadsAreKept,
                CopiesAreOfQrs, OrphansStayUnnamed, Deletable, EvidenceIsKept, References
  <1>2. ASSUME NEW w \in Workers, NEW p \in Prefixes, PersistImage(w, p)
        PROVE  KeptInv'
    BY <1>2, PersistKept
  <1>3. ASSUME NEW w \in Workers, Put(w) \/ UploadFails(w)
        PROVE  KeptInv'
    BY <1>3, PutKept
  <1>4. ASSUME NEW w \in Workers, CommitProof(w) \/ CommitQr(w) \/ CopyConfig(w)
        PROVE  KeptInv'
    BY <1>4, CommitKept
  <1>5. ASSUME NEW w \in Workers, ReadConfig(w)
        PROVE  KeptInv'
    BY <1>5, ReadKept
  <1>6. ASSUME NEW p \in Prefixes, NEW k \in Keys, ConfirmDelete(p, k) \/ Lose(p, k)
        PROVE  KeptInv'
    BY <1>6, DeleteKept, LoseKept
  <1> QED BY <1>1, <1>2, <1>3, <1>4, <1>5, <1>6, GeneratedKept, RunKept
          DEF StoreNext

LEMMA KeptStart == StoreInit => KeptInv
  BY DEF StoreInit, KeptInv, UploadsAreYoung, UploadsAreKept, CopiesAreOfQrs,
         OrphansStayUnnamed, Deletable, EvidenceIsKept, References, NoHandler,
         NoRun, NoSide, Prefixes

\* While an operator cleans up proofs only (reconcile_storage.py:31-35),
\* no order of uploads, registrations, failures, listings, queries and
\* deletions makes a row name an object that is not there.
THEOREM KeptTheorem ==
    ASSUME DeletedPrefixes \subseteq {"proofs"}
    PROVE  StoreSpec => []EvidenceIsKept
  <1>1. KeptInv => EvidenceIsKept
    BY DEF KeptInv
  <1>2. StoreInv /\ KeptInv /\ [StoreNext]_storeVars => KeptInv'
    BY KeptStep
  <1> QED BY <1>1, <1>2, KeptStart, StoreInvariant, PTL DEF StoreSpec

-----------------------------------------------------------------------------
(* Realtime: types *)

Messages == Kinds \cup {"RESYNC"}

RealtimeTypes ==
    /\ version \in 0..MaxChanges
    /\ unpublished \in [Kinds -> 0..MaxChanges]
    /\ announced \in 0..version
    /\ alive \in BOOLEAN /\ listening \in BOOLEAN
    /\ listener \in ListenerPlaces
    /\ drops \in 0..MaxDrops
    /\ inbox \in Seq(Kinds)
    /\ commands \in Seq(Command)
    /\ subscribers \subseteq Streams
    /\ stream \in [Streams -> StreamPlaces]
    /\ channel \in [Streams -> Seq(Messages)]
    /\ shown \in [Streams -> 0..MaxChanges]

\* Only a change makes a notification due.
UnpublishedFit == \A k \in Kinds : unpublished[k] <= version

QueuesFit == \A c \in Streams : Len(channel[c]) <= QueueSize

\* A stream is subscribed from its Subscribe to its Unsubscribe.
StreamsSubscribe ==
    \A c \in Streams :
        c \in subscribers <=> stream[c] \in {"listen", "waiting", "open", "streaming"}

RealtimeInv == RealtimeTypes /\ UnpublishedFit /\ QueuesFit /\ StreamsSubscribe

\* A page that stays keeps the topic listened to, or there is one page only.
Company ==
    \/ \E first \in Streams \ Leaving :
          /\ stream[first] = "streaming"
          /\ \A c \in Streams : stream[c] \notin {"listen", "waiting", "unlisten"}
    \/ \E only \in Streams : \A c \in Streams \ {only} : stream[c] = "gone"

\* No UNLISTEN is queued while a page is there or may come.
NobodyUnlistens ==
    (\E c \in Streams : stream[c] # "gone") =>
        commands \in Seq([action : {"LISTEN"}, ack : Streams \cup {NoStream}])

\* A connection that serves pages listens, or will before the listener polls.
ListensForPages ==
    alive =>
        /\ listener # "down"
        /\ (\E c \in Streams : stream[c] \in {"open", "streaming"}) =>
              /\ listener \in {"resync", "polling"} => listening
              /\ listener = "draining" => listening \/ commands # <<>>

ToldInv ==
    RealtimeInv /\ Company /\ NobodyUnlistens /\ ListensForPages /\ NothingSilentlyStale

LEMMA LimitsAreNat ==
    /\ MaxChanges \in Nat /\ MaxDrops \in Nat
    /\ QueueSize \in Nat /\ QueueSize > 0
  BY LimitsAssumption

\* A full queue stays as long as it is, and every queue ends with the message.
LEMMA PushedForm ==
    ASSUME NEW q \in Seq(Messages), NEW m \in Messages, Len(q) <= QueueSize
    PROVE  Pushed(q, m) \in Seq(Messages) \ {<<>>} /\ Len(Pushed(q, m)) <= QueueSize
  <1>1. CASE Len(q) < QueueSize
    <2>1. Append(q, m) \in Seq(Messages) /\ Len(Append(q, m)) = Len(q) + 1
      OBVIOUS
    <2> QED BY <1>1, <2>1, LimitsAreNat DEF Pushed
  <1>2. CASE Len(q) >= QueueSize
    <2>1. q # <<>>
      BY <1>2, LimitsAreNat
    <2>2. Tail(q) \in Seq(Messages) /\ Len(Tail(q)) = Len(q) - 1
      BY <2>1
    <2>3. Append(Tail(q), m) \in Seq(Messages) /\ Len(Append(Tail(q), m)) = Len(q)
      BY <2>2
    <2> QED BY <1>2, <2>1, <2>3, LimitsAreNat DEF Pushed
  <1> QED BY <1>1, <1>2, LimitsAreNat

\* If pages react to all kinds, any message makes the page fetch again.
LEMMA AnyMessageReaches ==
    ASSUME Kinds \subseteq RefetchedKinds, NEW q \in Seq(Messages)
    PROVE  Reaches(q) <=> q # <<>>
  <1>1. Messages \subseteq RefetchedKinds
    BY DEF Messages, RefetchedKinds
  <1>2. ASSUME q # <<>> PROVE 1 \in DOMAIN q /\ q[1] \in Messages
    BY <1>2
  <1>3. q = <<>> => DOMAIN q = {}
    OBVIOUS
  <1> QED BY <1>1, <1>2, <1>3 DEF Reaches

LEMMA HearTypes ==
    ASSUME NEW c \in Streams, NEW m, Hear(c, m), RealtimeTypes
    PROVE  shown' \in [Streams -> 0..MaxChanges]
  BY DEF Hear, RealtimeTypes

LEMMA PublishingInv ==
    ASSUME RealtimeInv, NEW k \in Kinds, Change(k) \/ Notify(k) \/ NotifyFails(k)
    PROVE  RealtimeInv'
  <1>0. /\ version \in Nat /\ announced \in Nat /\ MaxChanges \in Nat
        /\ announced <= version /\ version <= MaxChanges
        /\ unpublished \in [Kinds -> 0..MaxChanges]
    BY LimitsAreNat DEF RealtimeInv, RealtimeTypes
  <1>1. \A j \in Kinds : unpublished[j] \in Nat /\ unpublished[j] <= version
    BY <1>0 DEF RealtimeInv, UnpublishedFit
  <1>2. CASE Change(k)
    <2>1. version' = version + 1 /\ version < MaxChanges
      BY <1>2 DEF Change
    <2>2. /\ unpublished' \in [Kinds -> 0..MaxChanges]
          /\ \A j \in Kinds : unpublished'[j] <= version'
      BY <1>0, <1>1, <1>2, <2>1 DEF Change
    <2>3. version' \in 0..MaxChanges /\ announced' \in 0..version'
      BY <1>0, <1>2, <2>1 DEF Change
    <2> QED BY <1>2, <2>2, <2>3 DEF Change, RealtimeInv, RealtimeTypes, UnpublishedFit,
            QueuesFit, StreamsSubscribe, listenerVars, streamVars
  <1>3. CASE Notify(k) \/ NotifyFails(k)
    <2>1. /\ version' = version /\ unpublished[k] > 0
          /\ unpublished' = [unpublished EXCEPT ![k] = @ - 1]
      BY <1>3 DEF Notify, NotifyFails, Published
    <2>2. /\ unpublished' \in [Kinds -> 0..MaxChanges]
          /\ \A j \in Kinds : unpublished'[j] <= version'
      BY <1>0, <1>1, <2>1
    <2>3. announced' \in 0..version'
      BY <1>0, <1>3, <2>1 DEF Notify, NotifyFails
    <2>4. inbox' \in Seq(Kinds)
      <3>1. inbox \in Seq(Kinds) /\ Append(inbox, k) \in Seq(Kinds)
        BY DEF RealtimeInv, RealtimeTypes
      <3> QED BY <1>3, <3>1 DEF Notify, NotifyFails, listenerVars
    <2> QED BY <1>3, <2>1, <2>2, <2>3, <2>4
            DEF Notify, NotifyFails, RealtimeInv, RealtimeTypes, UnpublishedFit,
                QueuesFit, StreamsSubscribe, listenerVars, streamVars
  <1> QED BY <1>2, <1>3

LEMMA ServingInv ==
    ASSUME RealtimeInv, NEW c \in Streams, Subscribe(c) \/ Serve(c) \/ Unsubscribe(c)
    PROVE  RealtimeInv'
  <1>0. /\ stream \in [Streams -> StreamPlaces] /\ subscribers \subseteq Streams
        /\ commands \in Seq(Command)
    BY DEF RealtimeInv, RealtimeTypes
  <1>1. CASE Subscribe(c)
    <2>1. /\ stream' \in [Streams -> StreamPlaces] /\ subscribers' \subseteq Streams
          /\ StreamsSubscribe'
      BY <1>0, <1>1 DEF Subscribe, Goes, StreamPlaces, RealtimeInv, StreamsSubscribe
    <2> QED BY <1>1, <2>1 DEF Subscribe, RealtimeInv, RealtimeTypes, UnpublishedFit,
            QueuesFit, changeVars, listenerVars
  <1>2. CASE Unsubscribe(c)
    <2>1. /\ stream' \in [Streams -> StreamPlaces] /\ subscribers' \subseteq Streams
          /\ StreamsSubscribe'
      BY <1>0, <1>2 DEF Unsubscribe, Goes, StreamPlaces, RealtimeInv, StreamsSubscribe
    <2> QED BY <1>2, <2>1 DEF Unsubscribe, RealtimeInv, RealtimeTypes, UnpublishedFit,
            QueuesFit, changeVars, listenerVars
  <1>3. CASE AskListen(c) \/ AskUnlisten(c)
    <2>1. commands' \in Seq(Command)
      <3>1. /\ [action |-> "LISTEN", ack |-> c] \in Command
            /\ [action |-> "UNLISTEN", ack |-> NoStream] \in Command
        BY DEF Command, Actions
      <3>2. \A m \in Command : Append(commands, m) \in Seq(Command)
        BY <1>0
      <3> QED BY <1>3, <3>1, <3>2 DEF AskListen, AskUnlisten, Enqueue
    <2>2. stream' \in [Streams -> StreamPlaces] /\ StreamsSubscribe'
      BY <1>0, <1>3
         DEF AskListen, AskUnlisten, Goes, StreamPlaces, RealtimeInv, StreamsSubscribe
    <2> QED BY <1>3, <2>1, <2>2
            DEF AskListen, AskUnlisten, RealtimeInv, RealtimeTypes, UnpublishedFit,
                QueuesFit, changeVars, listenerVars
  <1>4. CASE AckTimesOut(c) \/ SendSummary(c)
    <2>1. stream' \in [Streams -> StreamPlaces] /\ StreamsSubscribe'
      BY <1>0, <1>4
         DEF AckTimesOut, SendSummary, Goes, StreamPlaces, RealtimeInv, StreamsSubscribe
    <2>2. shown' \in [Streams -> 0..MaxChanges]
      BY <1>4, HearTypes DEF AckTimesOut, SendSummary, RealtimeInv, RealtimeTypes
    <2> QED BY <1>4, <2>1, <2>2
            DEF AckTimesOut, SendSummary, RealtimeInv, RealtimeTypes, UnpublishedFit,
                QueuesFit, changeVars, listenerVars
  <1>5. CASE Deliver(c)
    <2>1. /\ channel \in [Streams -> Seq(Messages)] /\ channel[c] # <<>>
          /\ channel' = [channel EXCEPT ![c] = Tail(@)]
      BY <1>5 DEF Deliver, RealtimeInv, RealtimeTypes
    <2>2. Tail(channel[c]) \in Seq(Messages) /\ Len(Tail(channel[c])) = Len(channel[c]) - 1
      BY <2>1
    <2>3. channel' \in [Streams -> Seq(Messages)]
      BY <2>1, <2>2
    <2>4. QueuesFit'
      <3>1. Len(channel[c]) \in Nat /\ Len(channel[c]) <= QueueSize
        BY <2>1 DEF RealtimeInv, QueuesFit
      <3>2. Len(Tail(channel[c])) <= QueueSize
        BY <2>2, <3>1, LimitsAreNat
      <3> QED BY <2>1, <3>2 DEF RealtimeInv, QueuesFit
    <2>5. shown' \in [Streams -> 0..MaxChanges]
      BY <1>5, HearTypes DEF Deliver, RealtimeInv
    <2> QED BY <1>5, <2>3, <2>4, <2>5
            DEF Deliver, RealtimeInv, RealtimeTypes, UnpublishedFit, StreamsSubscribe,
                changeVars, listenerVars
  <1> QED BY <1>1, <1>2, <1>3, <1>4, <1>5 DEF Serve

LEMMA ListeningInv ==
    ASSUME RealtimeInv, Listen \/ Drop
    PROVE  RealtimeInv'
  <1>0. /\ commands \in Seq(Command) /\ inbox \in Seq(Kinds)
        /\ channel \in [Streams -> Seq(Messages)]
        /\ stream \in [Streams -> StreamPlaces]
        /\ \A c \in Streams : Len(channel[c]) <= QueueSize
    BY DEF RealtimeInv, RealtimeTypes, QueuesFit
  <1>a. <<>> \in Seq(Kinds)
    OBVIOUS
  <1>1. CASE Reconnect \/ Drained \/ NoticeDrop
    <2>1. inbox' \in Seq(Kinds) /\ alive' \in BOOLEAN /\ listening' \in BOOLEAN
      <3>1. /\ alive' = alive \/ alive' = TRUE
            /\ listening' = listening \/ listening' = FALSE
            /\ inbox' = inbox \/ inbox' = <<>>
        BY <1>1 DEF Reconnect, Drained, NoticeDrop
      <3> QED BY <1>0, <1>a, <3>1 DEF RealtimeInv, RealtimeTypes
    <2>2. listener' \in ListenerPlaces
      BY <1>1 DEF Reconnect, Drained, NoticeDrop, MoveListener, ListenerPlaces
    <2> QED BY <1>1, <2>1, <2>2
            DEF Reconnect, Drained, NoticeDrop, RealtimeInv, RealtimeTypes, UnpublishedFit,
                QueuesFit, StreamsSubscribe, changeVars, streamVars
  <1>2. CASE Drop
    <2>1. drops' \in 0..MaxDrops
      <3>1. drops \in Nat /\ drops < MaxDrops /\ drops' = drops + 1
        BY <1>2, LimitsAreNat DEF Drop, RealtimeInv, RealtimeTypes
      <3> QED BY <3>1, LimitsAreNat
    <2>2. inbox' \in Seq(Kinds)
      BY <1>0, <1>a, <1>2 DEF Drop
    <2> QED BY <1>2, <2>1, <2>2 DEF Drop, RealtimeInv, RealtimeTypes, UnpublishedFit, QueuesFit,
                StreamsSubscribe, changeVars, streamVars
  <1>3. CASE ListenAgain
    <2>1. commands' \in Seq(Command)
      BY <1>0, <1>3 DEF ListenAgain, Enqueue, Command, Actions
    <2> QED BY <1>3, <2>1 DEF ListenAgain, MoveListener, ListenerPlaces, RealtimeInv,
                RealtimeTypes, UnpublishedFit, QueuesFit, StreamsSubscribe,
                changeVars, streamVars
  <1>4. CASE Execute
    <2>1. commands' \in Seq(Command)
      BY <1>0, <1>4 DEF Execute
    <2>2. listening' \in BOOLEAN
      BY <1>4 DEF Execute, RealtimeInv, RealtimeTypes
    <2>3. /\ stream' \in [Streams -> StreamPlaces]
          /\ \A c \in Streams : \/ stream'[c] = stream[c]
                                \/ stream[c] = "waiting" /\ stream'[c] = "open"
      BY <1>0, <1>4 DEF Execute, StreamPlaces
    <2>4. StreamsSubscribe'
      BY <1>4, <2>3 DEF Execute, RealtimeInv, StreamsSubscribe
    <2> QED BY <1>4, <2>1, <2>2, <2>3, <2>4
            DEF Execute, RealtimeInv, RealtimeTypes, UnpublishedFit, QueuesFit, changeVars
  <1>5. CASE ResyncAll
    <2>1. /\ channel' \in [Streams -> Seq(Messages)]
          /\ \A c \in Streams : Len(channel'[c]) <= QueueSize
      <3>1. ASSUME NEW c \in Streams, Len(channel[c]) < QueueSize
            PROVE  /\ Append(channel[c], "RESYNC") \in Seq(Messages)
                   /\ Len(Append(channel[c], "RESYNC")) <= QueueSize
        BY <1>0, <3>1, LimitsAreNat DEF Messages
      <3> QED BY <1>0, <1>5, <3>1 DEF ResyncAll
    <2> QED BY <1>5, <2>1 DEF ResyncAll, MoveListener, ListenerPlaces, RealtimeInv,
                RealtimeTypes, UnpublishedFit, QueuesFit, StreamsSubscribe, changeVars
  <1>6. CASE HandleNotify
    <2>1. Head(inbox) \in Messages /\ inbox' \in Seq(Kinds)
      BY <1>0, <1>6 DEF HandleNotify, Messages
    <2>2. \A c \in Streams : /\ Pushed(channel[c], Head(inbox)) \in Seq(Messages)
                             /\ Len(Pushed(channel[c], Head(inbox))) <= QueueSize
      BY <1>0, <2>1, PushedForm
    <2>3. /\ channel' \in [Streams -> Seq(Messages)]
          /\ \A c \in Streams : Len(channel'[c]) <= QueueSize
      BY <1>0, <1>6, <2>2 DEF HandleNotify
    <2> QED BY <1>6, <2>1, <2>3 DEF HandleNotify, RealtimeInv, RealtimeTypes,
                UnpublishedFit, QueuesFit, StreamsSubscribe, changeVars
  <1> QED BY <1>1, <1>2, <1>3, <1>4, <1>5, <1>6 DEF Listen

LEMMA RealtimeNextInv == RealtimeInv /\ [Next]_realtimeVars => RealtimeInv'
  <1> SUFFICES ASSUME RealtimeInv, [Next]_realtimeVars PROVE RealtimeInv'
    OBVIOUS
  <1>1. CASE UNCHANGED realtimeVars
    BY <1>1 DEF realtimeVars, changeVars, listenerVars, streamVars, RealtimeInv,
                RealtimeTypes, UnpublishedFit, QueuesFit, StreamsSubscribe
  <1>2. CASE Next
    BY <1>2, PublishingInv, ServingInv, ListeningInv DEF Next
  <1> QED BY <1>1, <1>2

LEMMA RealtimeInitInv == Init \/ Undisturbed => RealtimeInv
  <1> SUFFICES ASSUME Init \/ Undisturbed PROVE RealtimeInv
    OBVIOUS
  <1>1. /\ version = 0 /\ announced = 0 /\ drops = 0
        /\ unpublished = [k \in Kinds |-> 0]
        /\ inbox = <<>> /\ commands = <<>>
        /\ channel = [c \in Streams |-> <<>>]
        /\ shown = [c \in Streams |-> 0]
        /\ alive \in BOOLEAN /\ listening \in BOOLEAN
        /\ listener \in {"down", "polling"}
    BY DEF Init, Undisturbed, Warm, Alone
  <1>2. /\ stream \in [Streams -> StreamPlaces] /\ subscribers \subseteq Streams
        /\ StreamsSubscribe
    BY DEF Init, Undisturbed, Warm, Alone, StreamPlaces, StreamsSubscribe
  <1>3. /\ 0 \in 0..MaxChanges /\ 0 \in 0..MaxDrops /\ 0 \in 0..0
        /\ Len(<<>>) = 0 /\ 0 <= QueueSize
        /\ <<>> \in Seq(Messages) /\ <<>> \in Seq(Kinds) /\ <<>> \in Seq(Command)
    BY LimitsAreNat
  <1>4. UnpublishedFit /\ QueuesFit
    BY <1>1, <1>3 DEF UnpublishedFit, QueuesFit
  <1> QED BY <1>1, <1>2, <1>3, <1>4 DEF RealtimeInv, RealtimeTypes, ListenerPlaces

\* The types of the broadcaster, its streams and its publishers, however the
\* instance began.
THEOREM RealtimeTypeTheorem == RealtimeSpec => []RealtimeTypeOK
  <1>1. RealtimeInv => RealtimeTypeOK
    BY DEF RealtimeInv, RealtimeTypes, QueuesFit, RealtimeTypeOK, Messages
  <1> QED BY <1>1, RealtimeInitInv, RealtimeNextInv, PTL DEF RealtimeSpec

-----------------------------------------------------------------------------
(* Realtime: no page is silently stale *)

\* Nobody comes back, only those who may leave do, and only a stream that is
\* alone asks for a LISTEN or an UNLISTEN.
LEMMA StreamSteps ==
    ASSUME RealtimeInv, [Next]_realtimeVars, NEW c \in Streams
    PROVE  /\ stream[c] = "gone" => stream'[c] = "gone"
           /\ c \notin Leaving /\ stream[c] = "streaming" => stream'[c] = "streaming"
           /\ stream'[c] \in {"listen", "waiting", "unlisten"} =>
                 \/ stream[c] \in {"listen", "waiting", "unlisten"}
                 \/ subscribers \subseteq {c}
  <1>0. stream \in [Streams -> StreamPlaces]
    BY DEF RealtimeInv, RealtimeTypes
  <1>1. CASE UNCHANGED realtimeVars
    BY <1>1 DEF realtimeVars, streamVars
  <1>2. CASE \E d \in Streams : Subscribe(d) \/ AskListen(d) \/ AckTimesOut(d)
    BY <1>0, <1>2 DEF Subscribe, AskListen, AckTimesOut, Goes
  <1>3. CASE \E d \in Streams :
               SendSummary(d) \/ Deliver(d) \/ Unsubscribe(d) \/ AskUnlisten(d)
    BY <1>0, <1>3 DEF SendSummary, Deliver, Unsubscribe, AskUnlisten, Goes
  <1>4. CASE \E k \in Kinds : Change(k) \/ Notify(k) \/ NotifyFails(k)
    BY <1>4 DEF Change, Notify, NotifyFails, streamVars
  <1>5. CASE Execute
    BY <1>0, <1>5 DEF Execute
  <1>6. CASE Reconnect \/ ListenAgain \/ Drained \/ ResyncAll \/ HandleNotify
                \/ NoticeDrop \/ Drop
    BY <1>6 DEF Reconnect, ListenAgain, Drained, ResyncAll, HandleNotify, NoticeDrop,
                Drop, streamVars
  <1> QED BY <1>1, <1>2, <1>3, <1>4, <1>5, <1>6 DEF Next, Listen, Serve

LEMMA CompanyStays ==
    ASSUME ToldInv, [Next]_realtimeVars
    PROVE  Company'
  <1>1. RealtimeInv /\ Company
    BY DEF ToldInv
  <1>2. ASSUME NEW first \in Streams \ Leaving, stream[first] = "streaming",
               \A c \in Streams : stream[c] \notin {"listen", "waiting", "unlisten"}
        PROVE  Company'
    <2>1. stream'[first] = "streaming" /\ first \in subscribers
      BY <1>1, <1>2, StreamSteps DEF RealtimeInv, StreamsSubscribe
    <2>2. ASSUME NEW c \in Streams PROVE stream'[c] \notin {"listen", "waiting", "unlisten"}
      <3>1. c = first \/ ~(subscribers \subseteq {c})
        BY <2>1
      <3> QED BY <1>1, <1>2, <2>1, <3>1, StreamSteps
    <2> QED BY <2>1, <2>2 DEF Company
  <1>3. ASSUME NEW only \in Streams, \A c \in Streams \ {only} : stream[c] = "gone"
        PROVE  Company'
    <2>1. \A c \in Streams \ {only} : stream'[c] = "gone"
      BY <1>1, <1>3, StreamSteps
    <2> QED BY <2>1 DEF Company
  <1> QED BY <1>1, <1>2, <1>3 DEF Company

\* Who asks for an UNLISTEN is the only one who is not gone.
LEMMA AloneUnlistens ==
    ASSUME RealtimeInv, Company, NEW c \in Streams, stream[c] = "unlisten"
    PROVE  \A d \in Streams \ {c} : stream[d] = "gone"
  BY DEF Company

LEMMA NobodyUnlistensStays ==
    ASSUME ToldInv, [Next]_realtimeVars
    PROVE  NobodyUnlistens'
  <1> DEFINE Listens == [action : {"LISTEN"}, ack : Streams \cup {NoStream}]
  <1>0. /\ RealtimeInv /\ Company /\ stream \in [Streams -> StreamPlaces]
        /\ (\E c \in Streams : stream[c] # "gone") => commands \in Seq(Listens)
    BY DEF ToldInv, NobodyUnlistens, RealtimeInv, RealtimeTypes
  <1> SUFFICES ASSUME NEW c \in Streams, stream'[c] # "gone"
               PROVE  commands' \in Seq(Listens)
    BY DEF NobodyUnlistens
  <1>1. commands \in Seq(Listens)
    BY <1>0, StreamSteps
  <1>2. /\ \A d \in Streams \cup {NoStream} : [action |-> "LISTEN", ack |-> d] \in Listens
        /\ \A m \in Listens : Append(commands, m) \in Seq(Listens)
        /\ commands # <<>> => Tail(commands) \in Seq(Listens)
    BY <1>1
  <1> HIDE DEF Listens
  <1>3. CASE UNCHANGED commands
    BY <1>1, <1>3
  <1>4. CASE \E d \in Streams : AskListen(d)
    BY <1>2, <1>4 DEF AskListen, Enqueue
  <1>5. CASE ListenAgain
    BY <1>2, <1>5 DEF ListenAgain, Enqueue
  <1>6. CASE Execute
    BY <1>2, <1>6 DEF Execute
  <1>7. ASSUME NEW d \in Streams, AskUnlisten(d) PROVE FALSE
    <2>1. stream[d] = "unlisten" /\ stream' = [stream EXCEPT ![d] = "gone"]
      BY <1>7 DEF AskUnlisten, Goes
    <2>2. stream'[c] = "gone"
      BY <1>0, <2>1, AloneUnlistens
    <2> QED BY <2>2
  <1>8. \/ UNCHANGED commands \/ ListenAgain \/ Execute
        \/ \E d \in Streams : AskListen(d) \/ AskUnlisten(d)
    BY DEF Next, Listen, Serve, realtimeVars, Change, Notify, NotifyFails, Subscribe,
           AckTimesOut, SendSummary, Deliver, Unsubscribe, Reconnect, Drained, ResyncAll,
           HandleNotify, NoticeDrop, Drop
  <1> QED BY <1>3, <1>4, <1>5, <1>6, <1>7, <1>8

LEMMA ListensForPagesStays ==
    ASSUME ToldInv, [Next]_realtimeVars
    PROVE  ListensForPages'
  <1> DEFINE pages == \E c \in Streams : stream[c] \in {"open", "streaming"}
  <1>0. /\ RealtimeInv /\ Company /\ NobodyUnlistens /\ ListensForPages
        /\ StreamsSubscribe /\ stream \in [Streams -> StreamPlaces]
        /\ commands \in Seq(Command)
    BY DEF ToldInv, RealtimeInv, RealtimeTypes
  <1>1. pages => subscribers # {}
    BY <1>0 DEF StreamsSubscribe
  <1>2. CASE /\ UNCHANGED <<alive, listening, listener>>
             /\ commands' = commands \/ commands' # <<>>
             /\ pages' => pages
    BY <1>0, <1>2 DEF ListensForPages
  <1>3. \A m : Append(commands, m) # <<>>
    BY <1>0
  <1>4. CASE UNCHANGED realtimeVars
    BY <1>2, <1>4 DEF realtimeVars, listenerVars, streamVars
  <1>5. CASE \E k \in Kinds : Change(k) \/ Notify(k) \/ NotifyFails(k)
    BY <1>2, <1>5 DEF Change, Notify, NotifyFails, listenerVars, streamVars
  <1>6. ASSUME NEW c \in Streams, Subscribe(c) PROVE ListensForPages'
    <2>1. /\ stream[c] = "new" /\ UNCHANGED <<listenerVars, commands>>
          /\ stream' = [stream EXCEPT ![c] = IF subscribers = {} THEN "listen" ELSE "open"]
      BY <1>6 DEF Subscribe, Goes
    <2>2. pages' => pages
      <3>1. CASE subscribers = {}
        BY <1>0, <2>1, <3>1
      <3>2. CASE subscribers # {}
        <4>1. PICK d \in Streams : d \in subscribers
          BY <3>2 DEF ToldInv, RealtimeInv, RealtimeTypes
        <4>2. stream[d] \in {"listen", "waiting", "open", "streaming"}
          BY <1>0, <4>1 DEF StreamsSubscribe
        <4>3. pages
          BY <1>0, <2>1, <4>1, <4>2 DEF Company
        <4> QED BY <4>3
      <3> QED BY <3>1, <3>2
    <2> QED BY <1>2, <2>1, <2>2 DEF listenerVars
  <1>7. ASSUME NEW c \in Streams, AskListen(c) PROVE ListensForPages'
    <2>1. pages' => pages
      BY <1>0, <1>7 DEF AskListen, Goes
    <2>2. commands' # <<>>
      BY <1>3, <1>7 DEF AskListen, Enqueue
    <2> QED BY <1>2, <1>7, <2>1, <2>2 DEF AskListen, listenerVars
  <1>8. ASSUME NEW c \in Streams, AckTimesOut(c) PROVE ListensForPages'
    BY <1>0, <1>8 DEF AckTimesOut, ListensForPages, listenerVars
  <1>9. ASSUME NEW c \in Streams, SendSummary(c) \/ Deliver(c) \/ Unsubscribe(c)
        PROVE  ListensForPages'
    <2>1. pages' => pages
      BY <1>0, <1>9 DEF SendSummary, Deliver, Unsubscribe, Goes
    <2> QED BY <1>2, <1>9, <2>1 DEF SendSummary, Deliver, Unsubscribe, listenerVars
  <1>10. ASSUME NEW c \in Streams, AskUnlisten(c) PROVE ListensForPages'
    <2>1. pages' => pages
      BY <1>0, <1>10 DEF AskUnlisten, Goes
    <2>2. commands' # <<>>
      BY <1>3, <1>10 DEF AskUnlisten, Enqueue
    <2> QED BY <1>2, <1>10, <2>1, <2>2 DEF AskUnlisten, listenerVars
  <1>11. CASE Drop
    BY <1>11 DEF Drop, ListensForPages
  <1>12. CASE Reconnect
    <2>1. pages' => listener' = "snapshot"
      BY <1>1, <1>12 DEF Reconnect, MoveListener, streamVars
    <2>2. listener' # "down"
      BY <1>12 DEF Reconnect, MoveListener
    <2> QED BY <2>1, <2>2 DEF ListensForPages
  <1>13. CASE ListenAgain
    <2>1. commands' # <<>> /\ listener' = "draining"
      BY <1>3, <1>13 DEF ListenAgain, Enqueue, MoveListener
    <2> QED BY <2>1 DEF ListensForPages
  <1>14. CASE Execute
    <2>1. /\ listener \in {"draining", "polling"} /\ commands # <<>>
          /\ UNCHANGED <<alive, listener>>
          /\ alive => listening' = (Head(commands).action = "LISTEN")
          /\ \A c \in Streams : stream'[c] # "gone" => stream[c] # "gone"
      BY <1>0, <1>14 DEF Execute
    <2>2. pages' => Head(commands).action = "LISTEN"
      <3> SUFFICES ASSUME pages' PROVE Head(commands).action = "LISTEN"
        OBVIOUS
      <3>1. \E c \in Streams : stream[c] # "gone"
        BY <2>1
      <3> DEFINE Listens == [action : {"LISTEN"}, ack : Streams \cup {NoStream}]
      <3>2. commands \in Seq(Listens)
        BY <1>0, <3>1 DEF NobodyUnlistens
      <3> HIDE DEF Listens
      <3>3. Head(commands) \in Listens
        BY <2>1, <3>2
      <3> QED BY <3>3 DEF Listens
    <2> HIDE DEF pages
    <2>3. alive' /\ pages' => listening'
      BY <2>1, <2>2
    <2> USE DEF pages
    <2> QED BY <2>1, <2>3 DEF ListensForPages
  <1>15. CASE Drained \/ ResyncAll
    <2>1. /\ UNCHANGED <<alive, listening, commands, stream>>
          /\ \/ listener = "draining" /\ commands = <<>> /\ listener' = "resync"
             \/ listener = "resync" /\ listener' = "polling"
      BY <1>15 DEF Drained, ResyncAll, MoveListener, streamVars
    <2> QED BY <1>0, <2>1 DEF ListensForPages
  <1>16. CASE HandleNotify
    BY <1>2, <1>16 DEF HandleNotify
  <1>17. CASE NoticeDrop
    BY <1>17 DEF NoticeDrop, ListensForPages
  <1> HIDE DEF pages
  <1> QED BY <1>4, <1>5, <1>6, <1>7, <1>8, <1>9, <1>10, <1>11, <1>12, <1>13, <1>14,
             <1>15, <1>16, <1>17 DEF Next, Listen, Serve

LEMMA StaleIsTold ==
    ASSUME Kinds \subseteq RefetchedKinds, ToldInv, [Next]_realtimeVars
    PROVE  NothingSilentlyStale'
  <1>0. /\ RealtimeInv /\ RealtimeInv' /\ ListensForPages
        /\ \A c \in Streams :
              stream[c] = "streaming" /\ shown[c] < announced => Signalled(c)
    BY RealtimeNextInv DEF ToldInv, NothingSilentlyStale
  <1>1. /\ stream \in [Streams -> StreamPlaces] /\ channel \in [Streams -> Seq(Messages)]
        /\ shown \in [Streams -> 0..MaxChanges] /\ inbox \in Seq(Kinds)
        /\ announced \in Nat /\ version \in Nat /\ announced <= version
        /\ listener \in ListenerPlaces
    BY <1>0 DEF RealtimeInv, RealtimeTypes
  <1>2. /\ channel' \in [Streams -> Seq(Messages)] /\ inbox' \in Seq(Messages)
        /\ inbox \in Seq(Messages)
    BY <1>0 DEF RealtimeInv, RealtimeTypes, Messages
  <1>3. \A q \in Seq(Messages) : Reaches(q) <=> q # <<>>
    BY AnyMessageReaches
  <1>4. /\ \A c \in Streams : Signalled(c) <=>
              (channel[c] # <<>> \/ inbox # <<>> \/ ~alive \/ listener # "polling")
        /\ \A c \in Streams : Signalled(c)' <=>
              (channel'[c] # <<>> \/ inbox' # <<>> \/ ~alive' \/ listener' # "polling")
    BY <1>1, <1>2, <1>3 DEF Signalled
  <1> SUFFICES ASSUME NEW c \in Streams, stream'[c] = "streaming", shown'[c] < announced',
                      channel'[c] = <<>>, inbox' = <<>>, alive', listener' = "polling"
               PROVE  FALSE
    BY <1>4 DEF NothingSilentlyStale
  <1>5. c \in subscribers'
    BY <1>0 DEF RealtimeInv, StreamsSubscribe
  <1>6. \/ ~(stream[c] = "streaming" /\ shown[c] < announced)
        \/ channel[c] # <<>> \/ inbox # <<>> \/ ~alive \/ listener # "polling"
    BY <1>0, <1>4
  <1>7. CASE UNCHANGED realtimeVars
    BY <1>6, <1>7 DEF realtimeVars, changeVars, listenerVars, streamVars
  <1>8. CASE \E k \in Kinds : Change(k) \/ NotifyFails(k)
    BY <1>6, <1>8 DEF Change, NotifyFails, Published, listenerVars, streamVars
  <1>9. ASSUME NEW k \in Kinds, Notify(k) PROVE FALSE
    <2>1. ~listening
      <3>1. inbox \in Seq(Kinds)
        BY <1>1
      <3>2. Append(inbox, k) # <<>>
        BY <3>1
      <3> QED BY <1>9, <3>2 DEF Notify
    <2>2. stream[c] = "streaming" /\ alive /\ listener = "polling"
      BY <1>9 DEF Notify, streamVars
    <2> QED BY <1>0, <2>1, <2>2 DEF ListensForPages
  <1>10. ASSUME NEW d \in Streams,
                Subscribe(d) \/ AskListen(d) \/ AckTimesOut(d) \/ Unsubscribe(d)
                   \/ AskUnlisten(d)
         PROVE  FALSE
    <2>1. /\ stream[c] = "streaming"
          /\ UNCHANGED <<shown, announced, channel, inbox, alive, listener>>
      BY <1>1, <1>10 DEF Subscribe, AskListen, AckTimesOut, Unsubscribe, AskUnlisten, Goes,
                         changeVars, listenerVars
    <2> QED BY <1>6, <2>1
  <1>11. ASSUME NEW d \in Streams, SendSummary(d) \/ Deliver(d) PROVE FALSE
    <2>1. CASE d = c
      <3>1. \E m \in Messages \cup {"summary"} : Hear(c, m)
        <4>1. channel[c] # <<>> => Head(channel[c]) \in Messages
          BY <1>1
        <4> QED BY <1>11, <2>1, <4>1 DEF SendSummary, Deliver
      <3>2. shown'[c] = version
        BY <1>1, <3>1 DEF Hear, Messages, RefetchedKinds
      <3>3. announced' = announced
        BY <1>11 DEF SendSummary, Deliver, changeVars
      <3> QED BY <1>1, <3>2, <3>3
    <2>2. CASE d # c
      <3>1. /\ stream[c] = "streaming" /\ shown'[c] = shown[c] /\ channel'[c] = channel[c]
            /\ UNCHANGED <<announced, inbox, alive, listener>>
        BY <1>1, <1>11, <2>2 DEF SendSummary, Deliver, Goes, Hear, changeVars, listenerVars
      <3> QED BY <1>6, <3>1
    <2> QED BY <2>1, <2>2
  <1>12. CASE Drop \/ Reconnect \/ ListenAgain \/ Drained \/ NoticeDrop
    BY <1>12 DEF Drop, Reconnect, ListenAgain, Drained, NoticeDrop, MoveListener
  <1>13. CASE Execute
    <2>1. /\ stream[c] = "streaming"
          /\ UNCHANGED <<shown, announced, channel, inbox, alive, listener>>
      BY <1>1, <1>13 DEF Execute, changeVars
    <2> QED BY <1>6, <2>1
  <1>14. CASE ResyncAll
    <2>1. c \in subscribers
      BY <1>5, <1>14 DEF ResyncAll
    <2>2. CASE Len(channel[c]) < QueueSize
      <3>1. channel[c] \in Seq(Messages)
        BY <1>1
      <3>2. Append(channel[c], "RESYNC") # <<>>
        BY <3>1
      <3> QED BY <1>1, <1>14, <2>1, <2>2, <3>2 DEF ResyncAll
    <2>3. CASE ~(Len(channel[c]) < QueueSize)
      <3>1. channel[c] # <<>>
        BY <2>3, LimitsAreNat
      <3> QED BY <1>14, <2>3, <3>1 DEF ResyncAll
    <2> QED BY <2>2, <2>3
  <1>15. CASE HandleNotify
    <2>1. c \in subscribers /\ Head(inbox) \in Messages
      BY <1>1, <1>5, <1>15 DEF HandleNotify, Messages
    <2>2. channel[c] \in Seq(Messages) /\ Len(channel[c]) <= QueueSize
      BY <1>0, <1>1 DEF RealtimeInv, QueuesFit
    <2>3. Pushed(channel[c], Head(inbox)) # <<>>
      BY <2>1, <2>2, PushedForm
    <2> QED BY <1>15, <2>1, <2>3 DEF HandleNotify
  <1> QED BY <1>7, <1>8, <1>9, <1>10, <1>11, <1>12, <1>13, <1>14, <1>15
          DEF Next, Listen, Serve

LEMMA ToldNextInv ==
    ASSUME Kinds \subseteq RefetchedKinds
    PROVE  ToldInv /\ [Next]_realtimeVars => ToldInv'
  <1> SUFFICES ASSUME ToldInv, [Next]_realtimeVars PROVE ToldInv'
    OBVIOUS
  <1>1. RealtimeInv'
    BY RealtimeNextInv DEF ToldInv
  <1>2. Company' /\ NobodyUnlistens' /\ ListensForPages'
    BY CompanyStays, NobodyUnlistensStays, ListensForPagesStays
  <1>3. NothingSilentlyStale'
    BY StaleIsTold
  <1> QED BY <1>1, <1>2, <1>3 DEF ToldInv

LEMMA ToldInitInv == Undisturbed => ToldInv
  <1> SUFFICES ASSUME Undisturbed PROVE ToldInv
    OBVIOUS
  <1>1. RealtimeInv
    BY RealtimeInitInv
  <1>2. /\ commands = <<>> /\ announced = 0
        /\ alive => listener = "polling" /\ listening
        /\ shown = [c \in Streams |-> 0]
    BY DEF Undisturbed, Warm, Alone
  <1>3. Company
    BY DEF Undisturbed, Warm, Alone, Company
  <1>4. <<>> \in Seq([action : {"LISTEN"}, ack : Streams \cup {NoStream}])
    OBVIOUS
  <1>5. NobodyUnlistens /\ ListensForPages
    BY <1>2, <1>4 DEF NobodyUnlistens, ListensForPages
  <1>6. NothingSilentlyStale
    BY <1>2 DEF NothingSilentlyStale
  <1> QED BY <1>1, <1>3, <1>5, <1>6 DEF ToldInv

\* If pages react to every kind that is published, and none opens the topic
\* while another one's LISTEN or UNLISTEN is under way, then however many come
\* and go, and whatever is lost, no page is behind without being told.
THEOREM ToldTheorem ==
    ASSUME Kinds \subseteq RefetchedKinds
    PROVE  UndisturbedSpec => []NothingSilentlyStale
  <1>1. ToldInv => NothingSilentlyStale
    BY DEF ToldInv
  <1> QED BY <1>1, ToldInitInv, ToldNextInv, PTL DEF UndisturbedSpec
=============================================================================
