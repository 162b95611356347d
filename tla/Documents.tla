------------------------------ MODULE Documents ------------------------------
(***************************************************************************)
(* The Document service (documents.service.ts): a row per requested upload *)
(* and the call that finalizes it.  The bytes travel between a client and  *)
(* the storage and are no part of the service.                             *)
(*                                                                         *)
(* finalize() reads the row, saves it and publishes document.uploaded to   *)
(* the bus itself, not through an outbox, so calls on one file interleave  *)
(* and one may stop between the row and the event.                         *)
(***************************************************************************)
EXTENDS Naturals, Sequences, FiniteSets

CONSTANTS
  Workers,     \* bound: calls at the same time
  Kinds,       \* the kinds of document asked for
  Sums,        \* the checksums clients report
  MaxMedia,    \* bound: uploads ever requested
  MaxCalls,    \* bound: finalize() calls ever begun
  MaxStopped   \* bound: files with a call that stopped in the middle

VARIABLES
  media,       \* table media: the rows, by id
  calls,
  uploaded,    \* history: the ids document.uploaded was published for
  stopped,     \* history: the ids a call stopped on
  count

vars == <<media, calls, uploaded, count, stopped>>

Image == {"image/jpeg", "image/png"}
Pdf == {"application/pdf"}

ALLOWED_MIME ==
  [license |-> Image \cup Pdf, cnic |-> Image, photo |-> Image,
   registration |-> Image \cup Pdf, receipt_pdf |-> Pdf]

IsAllowedMime(kind, mime) == mime \in ALLOWED_MIME[kind]

\* sum is "" before the upload is finalized, as finalized_at is null.
Media ==
  [kind : Kinds, mime : Image \cup Pdf, sum : Sums \cup {""}, finalized : BOOLEAN,
   scanStatus : {"pending", "clean", "infected"}]

Idle == [phase |-> "idle"]

\* The entity finalize() has read and changed, before and after its save.
Call == [phase : {"saving", "publishing"}, id : 1..MaxMedia, entity : Media]

TypeOK ==
  /\ media \in Seq(Media) /\ Len(media) <= MaxMedia
  /\ \A id \in DOMAIN media : IsAllowedMime(media[id].kind, media[id].mime)
  /\ calls \in [Workers -> {Idle} \cup Call]
  /\ uploaded \subseteq DOMAIN media
  /\ count \in 0..MaxCalls /\ stopped \subseteq DOMAIN media

Init ==
  /\ media = <<>> /\ uploaded = {}
  /\ calls = [w \in Workers |-> Idle]
  /\ count = 0 /\ stopped = {}

\* The URL that is returned depends on nothing that is stored.
RequestUploadUrl(kind, mime) ==
  /\ IsAllowedMime(kind, mime) /\ Len(media) < MaxMedia
  /\ media' = Append(media,
       [kind |-> kind, mime |-> mime, sum |-> "", finalized |-> FALSE, scanStatus |-> "pending"])
  /\ UNCHANGED <<calls, uploaded, count, stopped>>

\* finalize() up to the save: the stubbed scan finds every file clean.
Finalize(w, id, sum) ==
  /\ calls[w] = Idle /\ count < MaxCalls
  /\ calls' = [calls EXCEPT ![w] = [phase |-> "saving", id |-> id,
       entity |-> [media[id] EXCEPT !.sum = sum, !.finalized = TRUE, !.scanStatus = "clean"]]]
  /\ count' = count + 1
  /\ UNCHANGED <<media, uploaded, stopped>>

SaveMedia(w) ==
  /\ calls[w].phase = "saving"
  /\ media' = [media EXCEPT ![calls[w].id] = calls[w].entity]
  /\ calls' = [calls EXCEPT ![w].phase = "publishing"]
  /\ UNCHANGED <<uploaded, count, stopped>>

\* Variant: the event does not wait for the row.
PublishUploadedFirst(w) ==
  /\ calls[w] # Idle
  /\ uploaded' = uploaded \cup {calls[w].id}
  /\ calls' = [calls EXCEPT ![w] = IF @.phase = "saving" THEN @ ELSE Idle]
  /\ UNCHANGED <<media, count, stopped>>

PublishUploaded(w) ==
  /\ calls[w].phase = "publishing"
  /\ uploaded' = uploaded \cup {calls[w].id}
  /\ calls' = [calls EXCEPT ![w] = Idle]
  /\ UNCHANGED <<media, count, stopped>>

\* The database or the bus fails, or the process ends.
Stop(w) ==
  /\ calls[w] # Idle /\ Cardinality(stopped) < MaxStopped
  /\ calls' = [calls EXCEPT ![w] = Idle]
  /\ stopped' = stopped \cup {calls[w].id}
  /\ UNCHANGED <<media, uploaded, count>>

-----------------------------------------------------------------------------
Next ==
  \/ \E kind \in Kinds, mime \in Image \cup Pdf : RequestUploadUrl(kind, mime)
  \/ \E w \in Workers :
       \/ SaveMedia(w) \/ PublishUploaded(w) \/ Stop(w)
       \/ \E id \in DOMAIN media, sum \in Sums : Finalize(w, id, sum)

Spec == Init /\ [][Next]_vars

(***************************************************************************)
(* Properties                                                              *)
(***************************************************************************)

\* A file is announced only when its row says that it is complete, and a
\* complete row is announced unless a call on it is still at work or one
\* stopped between the row and the event (documents.service.ts:57-65).
AnnouncedAsStored ==
  \A id \in DOMAIN media :
    /\ id \in uploaded => media[id].finalized /\ media[id].scanStatus = "clean"
    /\ media[id].finalized /\ id \notin stopped =>
         id \in uploaded \/ \E w \in Workers : calls[w] # Idle /\ calls[w].id = id

=============================================================================
